---- MODULE Spec2Model ----
(***************************************************************************)
(* Voice agent session (core/session.py, core/models.py,                   *)
(* core/processors.py): the turn orchestrator as a state machine.          *)
(*                                                                         *)
(* A Python str is modelled as a sequence of one-character strings, so     *)
(* that lower-casing, substring search, trimming and the regular           *)
(* expressions of the response processor are computed, not assumed.        *)
(***************************************************************************)
EXTENDS Integers, Sequences, FiniteSets, TLC

(***************************************************************************)
(* Characters and elementary string functions (Python str methods).        *)
(***************************************************************************)
UpperChars == <<"A","B","C","D","E","F","G","H","I","J","K","L","M",
                "N","O","P","Q","R","S","T","U","V","W","X","Y","Z">>
LowerChars == <<"a","b","c","d","e","f","g","h","i","j","k","l","m",
                "n","o","p","q","r","s","t","u","v","w","x","y","z">>
DigitChars == <<"0","1","2","3","4","5","6","7","8","9">>

IsWs(ch) == ch \in {" ", "\n", "\t"}
IsDigit(ch) == \E i \in 1..10 : DigitChars[i] = ch
DigitVal(ch) == (CHOOSE i \in 1..10 : DigitChars[i] = ch) - 1

LowerChar(ch) ==
    IF \E i \in 1..26 : UpperChars[i] = ch
    THEN LowerChars[CHOOSE i \in 1..26 : UpperChars[i] = ch]
    ELSE ch

\* str.lower()
Lower(s) == [i \in 1..Len(s) |-> LowerChar(s[i])]

\* number of leading whitespace characters of s
LeadWs(s) ==
    IF \A i \in 1..Len(s) : IsWs(s[i]) THEN Len(s)
    ELSE (CHOOSE i \in 1..Len(s) : ~IsWs(s[i]) /\ \A j \in 1..(i-1) : IsWs(s[j])) - 1

\* number of leading digits of s
LeadDigits(s) ==
    IF \A i \in 1..Len(s) : IsDigit(s[i]) THEN Len(s)
    ELSE (CHOOSE i \in 1..Len(s) : ~IsDigit(s[i]) /\ \A j \in 1..(i-1) : IsDigit(s[j])) - 1

\* number of trailing whitespace characters of s
TrailWs(s) ==
    IF \A i \in 1..Len(s) : IsWs(s[i]) THEN Len(s)
    ELSE Len(s) - (CHOOSE i \in 1..Len(s) : ~IsWs(s[i]) /\ \A j \in (i+1)..Len(s) : IsWs(s[j]))

\* s[k:] with a 0-based k
From(s, k) == SubSeq(s, k + 1, Len(s))

LStrip(s) == From(s, LeadWs(s))
RStrip(s) == SubSeq(s, 1, Len(s) - TrailWs(s))
Strip(s) == RStrip(LStrip(s))

\* s.startswith(p)
StartsWith(s, p) == Len(p) <= Len(s) /\ SubSeq(s, 1, Len(p)) = p
\* s.endswith(p)
EndsWith(s, p) == Len(p) <= Len(s) /\ SubSeq(s, Len(s) - Len(p) + 1, Len(s)) = p
\* p in s
Contains(s, p) == \E i \in 0..(Len(s) - Len(p)) : SubSeq(s, i + 1, i + Len(p)) = p
\* the greatest element of a non-empty set of integers
MaxOf(S) == CHOOSE p \in S : \A q \in S : q <= p
\* the least element of a non-empty set of integers
MinOf(S) == CHOOSE p \in S : \A q \in S : p <= q
\* the highest of the 0-based indexes At, or -1
LastIndex(At) == IF At = {} THEN -1 ELSE MaxOf(At)
\* s.rfind(p): the highest 0-based index where p occurs in s, or -1
RFind(s, p) == LastIndex({i \in 0..(Len(s) - Len(p)) : SubSeq(s, i + 1, i + Len(p)) = p})

(***************************************************************************)
(* ResponseProcessor (core/processors.py).                                 *)
(***************************************************************************)
SENTENCE_ENDINGS == {".", "!", "?", ":", ";"}

\* the literal part "[TASK_DONE:" shared by the three marker patterns
MarkerOpen == <<"[","T","A","S","K","_","D","O","N","E",":">>

\* (\d+)\] at the start of r, which has d leading digits: the length of the
\* whole marker, 0 if there is no match
MarkerClose(r, d) ==
    IF d >= 1 /\ d < Len(r) /\ r[d + 1] = "]" THEN Len(MarkerOpen) + d + 1 ELSE 0

\* Length of the match of \[TASK_DONE:(\d+)\] at the start of s, 0 if none.
MarkerLen(s) ==
    IF ~StartsWith(s, MarkerOpen) THEN 0
    ELSE MarkerClose(From(s, Len(MarkerOpen)),
                     LeadDigits(From(s, Len(MarkerOpen))))

RECURSIVE ParseInt(_)
ParseInt(ds) ==
    IF ds = <<>> THEN 0
    ELSE 10 * ParseInt(SubSeq(ds, 1, Len(ds) - 1)) + DigitVal(ds[Len(ds)])

\* TASK_DONE_PATTERN.findall(text), each group parsed by int()
RECURSIVE extract_task_completions(_)
\* the matches from the start of text on, where a marker of length m starts
\* (m = 0: none)
CompletionsFrom(text, m) ==
    IF m > 0
    THEN <<ParseInt(SubSeq(text, Len(MarkerOpen) + 1, m - 1))>>
         \o extract_task_completions(From(text, m))
    ELSE extract_task_completions(Tail(text))

extract_task_completions(text) ==
    CHOOSE found \in {IF t = <<>> THEN <<>> ELSE CompletionsFrom(t, MarkerLen(t)) :
                         t \in {text}} : TRUE

\* \s*\[TASK_DONE:\d+\]\s* at the start of s, after w blanks and a marker of
\* length m
CleanupMatch(s, w, m) ==
    IF m = 0 THEN 0 ELSE w + m + LeadWs(From(s, w + m))

\* Length of the match of \s*\[TASK_DONE:\d+\]\s* at the start of s, 0 if none.
CleanupLen(s) ==
    CleanupMatch(s, LeadWs(s), MarkerLen(From(s, LeadWs(s))))

\* TASK_DONE_CLEANUP_PATTERN.sub(' ', text)
RECURSIVE CleanupSub(_)
\* the substitution from the start of text on, where a match of length k
\* starts (k = 0: none)
CleanupFrom(text, k) ==
    IF k > 0 THEN <<" ">> \o CleanupSub(From(text, k))
    ELSE <<Head(text)>> \o CleanupSub(Tail(text))

CleanupSub(text) ==
    CHOOSE sub \in {IF t = <<>> THEN <<>> ELSE CleanupFrom(t, CleanupLen(t)) :
                       t \in {text}} : TRUE

\* \d*$ matches t, which has d leading digits ($ is the end of the string, or
\* the place before a newline that ends it)
DigitsToEnd(t, d) == d = Len(t) \/ (d = Len(t) - 1 /\ t[Len(t)] = "\n")

\* \[TASK_DONE:\d*$ matches at the start of r
PartialMarker(r) ==
    /\ StartsWith(r, MarkerOpen)
    /\ DigitsToEnd(From(r, Len(MarkerOpen)),
                   LeadDigits(From(r, Len(MarkerOpen))))

\* Does \s*\[TASK_DONE:\d*$ match at the start of s?
PartialAt(s) == PartialMarker(From(s, LeadWs(s)))

\* text without the leftmost of the matches that start at the indexes At
PartialCut(text, At) ==
    IF At = {} THEN text
    ELSE SubSeq(text, 1, MinOf(At))
         \o (IF text[Len(text)] = "\n" THEN <<"\n">> ELSE <<>>)

\* TASK_DONE_PARTIAL_PATTERN.sub('', text): the leftmost match is removed.
PartialSub(text) ==
    PartialCut(text, {i \in 0..Len(text) : PartialAt(From(text, i))})

\* text, which has d leading digits, without a match of ^\d*\]\s*
StartCut(text, d) ==
    IF d < Len(text) /\ text[d + 1] = "]" THEN LStrip(From(text, d + 1)) ELSE text

\* re.sub(r'^\d*\]\s*', '', text)
StartSub(text) == StartCut(text, LeadDigits(text))

\* the three substitutions and strip(), each applied to the value of the one
\* before
strip_task_markers(text) ==
    CHOOSE stripped \in
        {Strip(t3) : t3 \in
            {StartSub(t2) : t2 \in
                {PartialSub(t1) : t1 \in {CleanupSub(text)}}}} : TRUE

\* buffer.rfind(ending + ' ')
pos_with_space(buffer, ending) == RFind(buffer, <<ending, " ">>)
\* len(buffer) - 1 if buffer.endswith(ending), else -1
pos_at_end(buffer, ending) == IF EndsWith(buffer, <<ending>>) THEN Len(buffer) - 1 ELSE -1

\* a split that loses the character that ends the sentence
SplitAfter_LosesEnding(buffer, last_end) ==
    IF last_end >= 0
    THEN <<Strip(SubSeq(buffer, 1, last_end)), LStrip(From(buffer, last_end + 1))>>
    ELSE << <<>>, buffer >>

\* buffer split after the 0-based index last_end (-1: no sentence ends)
SplitAfter(buffer, last_end) ==
    IF last_end >= 0
    THEN <<Strip(SubSeq(buffer, 1, last_end + 1)), LStrip(From(buffer, last_end + 1))>>
    ELSE << <<>>, buffer >>

\* returns <<complete, remaining>>
extract_complete_sentences(buffer) ==
    CHOOSE split \in
        {SplitAfter(b, MaxOf({-1} \cup {pos_with_space(b, e) : e \in SENTENCE_ENDINGS}
                                 \cup {pos_at_end(b, e) : e \in SENTENCE_ENDINGS})) :
            b \in {buffer}} : TRUE

(***************************************************************************)
(* Bounds of the model and the inputs of the environment.                  *)
(***************************************************************************)
\* final transcripts delivered by the transcription stream in one run
MaxFinals == 2
\* other inputs in one run: partial transcripts, audio-status and
\* client-interrupt signals, configuration messages
MaxEvents == 1
\* audio chunks the synthesis stream yields for one sentence
MaxChunks == 1
\* sends to the client that suspend the sender in one run (the connection is
\* back-pressured); every other send completes without yielding
MaxStalls == 1

\* SessionState.track_agent_speech: max_items
max_items == 3

U_plan == <<"p","l","a","n">>
U_echo == <<"o","k","a","y",".">>
\* texts the transcription stream delivers (never blank: the service drops those)
FinalTexts == {U_plan, U_echo}
PartialTexts == {U_plan, U_echo}

\* AgentConfig.rag_trigger_keywords, split and lower-cased by ToolRouter.__init__
\* (the keyword "plan" of the configured list)
Keywords == << <<"p","l","a","n">> >>

\* token streams the generation collaborator may produce: a sentence followed
\* by a completion marker; or nothing (generate_stream returns at once on a
\* status other than 200)
TokensA == << <<"O","k","a","y","."," ","[","T","A","S","K","_","D","O","N","E",":","1","]">> >>
LlmStreams == {TokensA, <<>>}

\* answers of the classification call ("" when the call fails)
ClassifierOutputs == { <<"N","O","N","E">>, <<"S","E","A","R","C","H",":"," ","p">>, <<>> }
\* result lists of the retrieval collaborator (none also when the query
\* raises: the error is caught at line 478)
SearchResults == { <<>>, << [product_name |-> <<"P">>, content |-> <<"c">>] >> }
\* task list a configuration message carries
ConfigTasks == << [id |-> 1, description |-> "t1", completed |-> FALSE] >>

SearchPrefix == <<"S","E","A","R","C","H",":">>
ContextHeader == <<"\n","\n","[","S","y","s","t","e","m"," ","c","o","n","t","e","x","t"," ","-"," ","r","e","l","e","v","a","n","t"," ","p","r","o","d","u","c","t"," ","i","n","f","o","r","m","a","t","i","o","n",":","]","\n">>
InterruptedSuffix == <<" ","[","i","n","t","e","r","r","u","p","t","e","d","]">>

\* task slots: one more than the final transcripts of a run
Cycles == 1..(MaxFinals + 1)

(***************************************************************************)
(* State.                                                                  *)
(*   state            self._state (SessionState)                           *)
(*   processing_task  self._processing_task: 0 (None) or a cycle task      *)
(*   running          self._running                                        *)
(*   cyc              the asyncio tasks running _process_user_input: the   *)
(*                    await each is suspended at (pc) and its locals       *)
(*   handlers         the _on_final_transcript tasks suspended before      *)
(*                    they create the processing task                      *)
(*   obs              the observations sent to the client by the last step *)
(*                    and the errors it logged (type "log")                *)
(*   finalsLeft, eventsLeft, stallsLeft                                    *)
(*                    what the environment may still do in this run        *)
(*   g                history variables read by the properties only        *)
(*   proc             a call of a ResponseProcessor method on its own: the *)
(*                    method, its argument and what it returned            *)
(***************************************************************************)
VARIABLES state, processing_task, running, cyc, handlers, obs,
          finalsLeft, eventsLeft, stallsLeft, g, proc

vars == <<state, processing_task, running, cyc, handlers, obs,
          finalsLeft, eventsLeft, stallsLeft, g, proc>>

\* no ResponseProcessor method is called on its own
NoCall == [method |-> "none", arg |-> <<>>, ret |-> <<>>]

\* Optional[str]: None is <<>>, a string s is <<s>>
NoneT == <<>>
Some(s) == <<s>>
\* Python truthiness of an Optional[str]
Truthy(o) == o # <<>> /\ o[1] # <<>>

SessionState ==
    [conversation_history |-> <<>>, tasks |-> <<>>,
     is_processing |-> FALSE, is_speaking |-> FALSE,
     is_interrupted |-> FALSE, is_audio_playing |-> FALSE,
     pending_interrupt_text |-> NoneT, pending_user_text |-> NoneT,
     recent_agent_speech |-> <<>>]

\* A processing task that does not exist (yet).  pc is the await the
\* coroutine is suspended at; the other fields are its locals.  ids, seq,
\* intr and passed are history: the final transcripts the input text came
\* from, the start number of the execution, whether is_interrupted was seen
\* true while the execution was generating or speaking, and the texts
\* _process_and_speak was called with.  g.log[c] is history too: for every
\* execution of _process_user_input in task c (the first and the nested
\* ones), the observations it has sent, in the order of the sends; the log
\* of a task is dropped when the task returns.
IdleCyc ==
    [pc |-> "idle", text |-> <<>>, response_text |-> <<>>, sentence_buffer |-> <<>>,
     first_audio |-> TRUE, ntok |-> 0, sentence |-> <<>>, tail |-> FALSE,
     chunks |-> 0, query |-> <<>>, rag_context |-> <<>>, cancelReq |-> FALSE,
     ids |-> {}, seq |-> 0, intr |-> FALSE, passed |-> <<>>]
DoneCyc == [IdleCyc EXCEPT !.pc = "done"]

\* the awaits on a send to the client
SendPcs == {"rag_sent", "partial_sent", "speaking_sent", "audio_done", "error_sent"}
\* the awaits on a collaborator
AwaitPcs == {"rag", "search", "llm", "tts"}
\* places between awaits
FlowPcs == {"begin", "add_user", "speak", "after_speak", "after_loop", "finalize",
            "after_try"}
\* awaits inside the try block of _process_user_input
TryPcs == {"rag", "search", "rag_sent", "llm", "partial_sent",
           "speaking_sent", "tts", "audio_done"}
\* a coroutine that has started executing and not returned
ActivePcs == TryPcs \cup {"error_sent"}
\* generating text or speaking it
GenPcs == {"llm", "partial_sent", "speaking_sent", "tts"}

GInit ==
    [nStarted |-> 0, given |-> [i \in 1..(MaxFinals + 1) |-> 0],
     inHist |-> [i \in 1..(MaxFinals + 1) |-> 0], accepted |-> {},
     pendingInterruptIds |-> {}, pendingUserIds |-> {},
     followUps |-> {}, spoken |-> {}, barge |-> 0, updates |-> <<>>,
     log |-> [c \in 1..(MaxFinals + 1) |-> <<>>]]

Obs(type, data, c) == [type |-> type, data |-> data, cyc |-> c]
\* a step of cycle task c: the session state, the task's locals, what was
\* sent, the history variables, and which of the sends reached in this step
\* suspends the task (0: none)
Ctx(c, stallAt) ==
    [st |-> state, c |-> cyc[c], out |-> <<>>, g |-> g, id |-> c, stallAt |-> stallAt]
\* what g.log keeps of an observation: the status sent, or the type
LogEntry(type, data) == IF type = "status" THEN data ELSE type
\* g.log with the observation added to the execution that runs in task c
Logged(log, c, type, data) ==
    IF type = "log" \/ log[c] = <<>> THEN log
    ELSE [log EXCEPT ![c][Len(log[c])] = Append(@, LogEntry(type, data))]
\* _send_event and _send_audio (type "log": a line printed, nothing sent)
Emit(ctx, type, data) ==
    [ctx EXCEPT !.out = Append(@, Obs(type, data, ctx.id)),
                !.g.log = Logged(@, ctx.id, type, data)]
SetPc(ctx, pc) == [ctx EXCEPT !.c.pc = pc]

(***************************************************************************)
(* SessionState methods (core/models.py).                                  *)
(***************************************************************************)
add_user_message(st, content) ==
    [st EXCEPT !.conversation_history = Append(@, [role |-> "user", content |-> content])]

add_assistant_message(st, content) ==
    [st EXCEPT !.conversation_history = Append(@, [role |-> "assistant", content |-> content])]

\* pop() in place of pop(0): the newest sentence is removed
track_agent_speech_EvictsNewest(st, text) ==
    LET a == Append(st.recent_agent_speech, text)
    IN [st EXCEPT !.recent_agent_speech =
                      IF Len(a) > max_items THEN SubSeq(a, 1, Len(a) - 1) ELSE a]

track_agent_speech(st, text) ==
    LET a == Append(st.recent_agent_speech, text)
    IN [st EXCEPT !.recent_agent_speech = IF Len(a) > max_items THEN Tail(a) ELSE a]

clear_agent_speech_history(st) == [st EXCEPT !.recent_agent_speech = <<>>]

\* text_lower in agent_lower or agent_lower.startswith(text_lower)
EchoOf(agent_lower, text_lower) ==
    Contains(agent_lower, text_lower) \/ StartsWith(agent_lower, text_lower)

\* is_echo without agent_text.lower()
is_echo_CaseOfSentenceKept(st, text) ==
    \E i \in 1..Len(st.recent_agent_speech) :
       EchoOf(st.recent_agent_speech[i], Strip(Lower(text)))

is_echo(st, text) ==
    \E i \in 1..Len(st.recent_agent_speech) :
       EchoOf(Lower(st.recent_agent_speech[i]), Strip(Lower(text)))

\* the index of the task mark_task_completed completes, 0 when it returns None
FirstIndex(Open) == IF Open = {} THEN 0 ELSE MinOf(Open)

TaskToComplete(st, task_id) ==
    FirstIndex({i \in 1..Len(st.tasks) :
                   st.tasks[i].id = task_id /\ ~st.tasks[i].completed})

\* st with its task at index i (0: none) completed
CompleteTask(st, i) == IF i = 0 THEN st ELSE [st EXCEPT !.tasks[i].completed = TRUE]

mark_task_completed(st, task_id) == CompleteTask(st, TaskToComplete(st, task_id))

reset_processing_state(st) ==
    clear_agent_speech_history(
        [st EXCEPT !.is_processing = FALSE, !.is_speaking = FALSE,
                   !.is_audio_playing = FALSE])

(***************************************************************************)
(* ToolRouter (core/processors.py).                                        *)
(***************************************************************************)
should_check_rag(user_text) ==
    \/ Keywords = <<>>
    \/ \E i \in 1..Len(Keywords) : Contains(Lower(user_text), Keywords[i])

\* returns <<should_search, search_query>>
parse_classification(result) ==
    IF StartsWith(result, SearchPrefix)
    THEN <<TRUE, Strip(From(result, Len(SearchPrefix)))>>
    ELSE <<FALSE, <<>> >>

(***************************************************************************)
(* _process_user_input (core/session.py), cut at its awaits.  The pc of a  *)
(* task names the place the coroutine is at: an await on a collaborator    *)
(* (rag, search, llm, tts), an await on a send to the client (SendPcs), or  *)
(* a place between awaits (FlowPcs).  Each operator runs the code of one   *)
(* place and names the next; Run goes from place to place until the        *)
(* coroutine reaches an await that suspends it.  The awaits on the         *)
(* collaborators always suspend; an await on a send suspends only when the *)
(* connection is back-pressured.  A send whose continuation                *)
(* neither reads nor writes session state before the next await is taken   *)
(* with that await; the sends of task_update and of an audio chunk are     *)
(* taken as completing at once.                                            *)
(***************************************************************************)
\* the loop over task_ids in _process_and_speak and _finalize_response
RECURSIVE ApplyTaskCompletions(_, _)
ApplyTaskCompletions(ctx, task_ids) ==
    IF task_ids = <<>> THEN ctx
    ELSE CHOOSE applied \in
             {ApplyTaskCompletions(
                  IF TaskToComplete(at.st, Head(ids)) # 0
                  THEN Emit([at EXCEPT !.st = mark_task_completed(at.st, Head(ids)),
                                       !.g.updates = Append(@, Head(ids))],
                            "task_update", Head(ids))
                  ELSE at,
                  Tail(ids)) : at \in {ctx}, ids \in {task_ids}} : TRUE

\* lines 263-269: the head of _process_user_input(text), up to the keyword
\* check of _maybe_get_rag_context
Begin(ctx) ==
    [ctx EXCEPT
       !.st = [ctx.st EXCEPT !.is_processing = TRUE, !.is_interrupted = FALSE,
                             !.pending_user_text = NoneT],
       !.c = [IdleCyc EXCEPT !.text = ctx.c.text, !.ids = ctx.c.ids,
                             !.seq = ctx.g.nStarted + 1,
                             !.pc = IF should_check_rag(ctx.c.text) THEN "rag"
                                    ELSE "add_user"],
       !.g = [ctx.g EXCEPT !.nStarted = @ + 1, !.pendingUserIds = {},
                           !.spoken = {},
                           !.log[ctx.id] = Append(@, <<>>),
                           !.given = [i \in DOMAIN @ |->
                                        IF i \in ctx.c.ids THEN @[i] + 1 ELSE @[i]]]]

\* the "\n\n".join of lines 472-475
RECURSIVE JoinResults(_)
JoinResults(results) ==
    IF results = <<>> THEN <<>>
    ELSE LET r == Head(results)
             one == <<"#","#","#"," ">> \o r.product_name \o <<"\n">> \o r.content
         IN IF Len(results) = 1 THEN one
            ELSE one \o <<"\n","\n">> \o JoinResults(Tail(results))

\* the retrieval query awaited whatever the classification answered
OnRagAnswered_AlwaysSearches(ctx, decision) ==
    [ctx EXCEPT !.c.query = parse_classification(decision)[2], !.c.pc = "search"]

\* lines 440-450: classify_intent has returned decision ("" when the call
\* failed); on a search directive the retrieval query is awaited
OnRagAnswered(ctx, decision) ==
    CHOOSE next \in
        {IF p[1] THEN [ctx EXCEPT !.c.query = p[2], !.c.pc = "search"]
         ELSE SetPc(ctx, "add_user") : p \in {parse_classification(decision)}} : TRUE

\* lines 452-476: the retrieval query has returned results
OnSearchAnswered(ctx, results) ==
    IF results # <<>>
    THEN Emit([ctx EXCEPT !.c.rag_context = JoinResults(results),
                          !.c.pc = "rag_sent"],
              "rag_results", ctx.c.query)
    ELSE SetPc(ctx, "add_user")

\* lines 271-281: the user message, status "thinking", the generation call
AddUserMessage(ctx) ==
    LET rag_context == ctx.c.rag_context
        user_message == IF rag_context # <<>>
                        THEN ctx.c.text \o ContextHeader \o rag_context
                        ELSE ctx.c.text
    IN Emit([ctx EXCEPT !.st = add_user_message(ctx.st, user_message),
                        !.g.inHist = [i \in DOMAIN @ |->
                                        IF i \in ctx.c.ids THEN @[i] + 1 ELSE @[i]],
                        !.c.pc = "llm"],
            "status", "thinking")

\* lines 289-302: the stream yields a token
OnToken(ctx, token) ==
    IF ctx.st.is_interrupted THEN SetPc(ctx, "after_loop")
    ELSE Emit([ctx EXCEPT !.c.response_text = @ \o token,
                          !.c.sentence_buffer = @ \o token,
                          !.c.ntok = @ + 1,
                          !.c.pc = "partial_sent"],
              "partial_response", strip_task_markers(ctx.c.response_text \o token))

\* lines 306-313: the token loop with the sentences extracted; complete is
\* spoken when it has more than 3 characters
SentenceExtracted(ctx, complete, remaining, speaks) ==
    LET first == speaks /\ ctx.c.first_audio
        c1 == [ctx EXCEPT !.c.sentence_buffer = remaining,
                          !.c.sentence = IF speaks THEN complete ELSE @,
                          !.c.tail = FALSE,
                          !.c.first_audio = IF first THEN FALSE ELSE @,
                          !.st = IF first
                                 THEN clear_agent_speech_history(
                                          [ctx.st EXCEPT !.is_speaking = TRUE])
                                 ELSE @,
                          !.c.pc = IF first THEN "speaking_sent"
                                   ELSE IF speaks THEN "speak" ELSE "llm"]
    IN IF first THEN Emit(c1, "status", "speaking") ELSE c1

SentencesExtracted(ctx, ex) ==
    SentenceExtracted(ctx, ex[1], ex[2], ex[1] # <<>> /\ Len(ex[1]) > 3)

\* lines 304-313: after partial_response was sent
AfterPartialSent(ctx) ==
    CHOOSE next \in
        {SentencesExtracted(ctx, ex) :
            ex \in {extract_complete_sentences(ctx.c.sentence_buffer)}} : TRUE

\* lines 385-388: speak_text is spoken unless it is blank
SpeakText(ctx, speak_text, silent) ==
    [ctx EXCEPT !.st = IF silent THEN @ ELSE track_agent_speech(@, speak_text),
                !.g.spoken = IF silent THEN @ ELSE @ \cup {Lower(speak_text)},
                !.c.sentence = IF silent THEN @ ELSE speak_text,
                !.c.passed = Append(@, ctx.c.sentence),
                !.c.chunks = 0,
                !.c.pc = IF silent THEN "after_speak" ELSE "tts"]

StrippedText(ctx, speak_text) == SpeakText(ctx, speak_text, Strip(speak_text) = <<>>)

\* _process_and_speak(sentence) up to its first await on the synthesis stream
process_and_speak(ctx) ==
    CHOOSE next \in
        {StrippedText(marked, speak_text) :
            marked \in {ApplyTaskCompletions(ctx, extract_task_completions(ctx.c.sentence))},
            speak_text \in {strip_task_markers(ctx.c.sentence)}} : TRUE

\* lines 390-394: the synthesis stream yields a chunk
OnChunk(ctx) ==
    IF ctx.st.is_interrupted \/ ~running THEN SetPc(ctx, "after_speak")
    ELSE Emit([ctx EXCEPT !.c.chunks = @ + 1], "audio", ctx.c.sentence)

\* _process_and_speak has returned: lines 316-317 in the token loop, line 329
\* after the trailing text
AfterSpeak(ctx) ==
    SetPc(ctx, IF ctx.c.tail THEN "finalize"
               ELSE IF ctx.st.is_interrupted THEN "after_loop" ELSE "llm")

\* lines 319-327 with the trailing text stripped
RemainingText(ctx, remaining, speaks) ==
    LET first == speaks /\ ctx.c.first_audio
        c1 == [ctx EXCEPT !.c.sentence = IF speaks THEN remaining ELSE @,
                          !.c.tail = speaks,
                          !.st.is_speaking = IF first THEN TRUE ELSE @,
                          !.c.pc = IF first THEN "speaking_sent"
                                   ELSE IF speaks THEN "speak" ELSE "finalize"]
    IN IF first THEN Emit(c1, "status", "speaking") ELSE c1

\* the trailing text spoken without the check of is_interrupted
AfterLoop_FlushesWhenInterrupted(ctx) ==
    RemainingText(ctx, Strip(ctx.c.sentence_buffer), Strip(ctx.c.sentence_buffer) # <<>>)

\* lines 319-327: after the token loop
AfterLoop(ctx) ==
    RemainingText(ctx, Strip(ctx.c.sentence_buffer),
                  ~ctx.st.is_interrupted /\ Strip(ctx.c.sentence_buffer) # <<>>)

\* lines 414-415 without the send of agent_response
SaveResponse_NotSent(ctx, clean_response) ==
    [ctx EXCEPT !.st = add_assistant_message(ctx.st, clean_response)]

\* lines 414-415: the response is saved and sent
SaveResponse(ctx, clean_response) ==
    Emit([ctx EXCEPT !.st = add_assistant_message(ctx.st, clean_response)],
         "agent_response", clean_response)

\* lines 411-412: the suffix of an interrupted response
MarkInterruptedResponse(ctx, clean_response) ==
    SaveResponse(ctx, clean_response
                      \o (IF ctx.st.is_interrupted THEN InterruptedSuffix ELSE <<>>))

\* _finalize_response without lines 399-407
finalize_response_SkipsMarkers(ctx) ==
    CHOOSE next \in
        {MarkInterruptedResponse(ctx, clean_response) :
            clean_response \in {strip_task_markers(ctx.c.response_text)}} : TRUE

\* _finalize_response
finalize_response(ctx) ==
    CHOOSE next \in
        {MarkInterruptedResponse(marked, clean_response) :
            marked \in {ApplyTaskCompletions(ctx, extract_task_completions(ctx.c.response_text))},
            clean_response \in {strip_task_markers(ctx.c.response_text)}} : TRUE

\* audio_done sent before the response is saved and sent
Finalize_AudioDoneFirst(ctx) ==
    CHOOSE next \in
        {SetPc(saved, "audio_done") :
            saved \in {IF ctx.c.response_text # <<>>
                       THEN finalize_response(Emit(ctx, "audio_done", TRUE))
                       ELSE Emit(ctx, "audio_done", TRUE)}} : TRUE

\* lines 329-333: save the response, send audio_done
Finalize(ctx) ==
    CHOOSE next \in
        {Emit(SetPc(saved, "audio_done"), "audio_done", TRUE) :
            saved \in {IF ctx.c.response_text # <<>> THEN finalize_response(ctx)
                       ELSE ctx}} : TRUE

\* lines 335-339: after audio_done was sent
AfterAudioDone(ctx) ==
    IF ctx.st.is_interrupted /\ Truthy(ctx.st.pending_interrupt_text)
    THEN [ctx EXCEPT !.st = reset_processing_state(ctx.st), !.c = DoneCyc]
    ELSE SetPc(ctx, "after_try")

\* lines 346-350: except Exception; the error is logged and sent
OnException(ctx) ==
    Emit(Emit(SetPc(ctx, "error_sent"), "log", "Error"), "error", "e")

\* lines 352-362 with the queued text merged into the text just processed
AfterTry_MergesProcessedText(ctx) ==
    IF Truthy(ctx.st.pending_user_text) /\ ~ctx.st.is_interrupted
    THEN [ctx EXCEPT !.st = reset_processing_state(
                                [ctx.st EXCEPT !.pending_user_text = NoneT]),
                     !.c.text = @ \o <<" ">> \o ctx.st.pending_user_text[1],
                     !.c.ids = @ \cup ctx.g.pendingUserIds,
                     !.c.pc = "begin",
                     !.g.followUps = @ \cup ctx.g.pendingUserIds]
    ELSE Emit([ctx EXCEPT !.st = reset_processing_state(ctx.st), !.c = DoneCyc],
              "status", "listening")

\* lines 352-362: after the try statement; the queued text is processed by a
\* nested call of _process_user_input
AfterTry(ctx) ==
    IF Truthy(ctx.st.pending_user_text) /\ ~ctx.st.is_interrupted
    THEN [ctx EXCEPT !.st = reset_processing_state(
                                [ctx.st EXCEPT !.pending_user_text = NoneT]),
                     !.c.text = ctx.st.pending_user_text[1],
                     !.c.ids = ctx.g.pendingUserIds,
                     !.c.pc = "begin",
                     !.g.followUps = @ \cup ctx.g.pendingUserIds]
    ELSE Emit([ctx EXCEPT !.st = reset_processing_state(ctx.st), !.c = DoneCyc],
              "status", "listening")

\* asyncio.CancelledError raised at the await the task is suspended at:
\* lines 341-344 inside the try statement; outside it (the task not started,
\* or in the except Exception handler) the error leaves the coroutine
OnCancelled(ctx) ==
    IF ctx.c.pc \in TryPcs
    THEN [ctx EXCEPT !.st = reset_processing_state(ctx.st), !.c = DoneCyc]
    ELSE [ctx EXCEPT !.c = DoneCyc]

\* the code at the place the coroutine is at
Continue(ctx) ==
    CASE ctx.c.pc \in {"start", "begin"} -> Begin(ctx)
      [] ctx.c.pc \in {"add_user", "rag_sent"} -> AddUserMessage(ctx)
      [] ctx.c.pc = "partial_sent" -> AfterPartialSent(ctx)
      [] ctx.c.pc \in {"speaking_sent", "speak"} -> process_and_speak(ctx)
      [] ctx.c.pc = "after_speak" -> AfterSpeak(ctx)
      [] ctx.c.pc = "after_loop" -> AfterLoop(ctx)
      [] ctx.c.pc = "finalize" -> Finalize(ctx)
      [] ctx.c.pc = "audio_done" -> AfterAudioDone(ctx)
      [] ctx.c.pc \in {"error_sent", "after_try"} -> AfterTry(ctx)

\* the coroutine runs on until an await suspends it or it returns; of the
\* sends it reaches, the one counted by stallAt suspends it
RECURSIVE Run(_)
Run(ctx) ==
    CHOOSE suspended \in
        {IF at.c.pc \in AwaitPcs \cup {"done"} THEN at
         ELSE IF at.c.pc \in SendPcs /\ at.stallAt = 1 THEN at
         ELSE Run(Continue([at EXCEPT !.stallAt = IF at.c.pc \in SendPcs /\ @ > 1
                                                  THEN @ - 1 ELSE @])) :
            at \in {ctx}} : TRUE

(***************************************************************************)
(* Steps of a processing task.                                             *)
(***************************************************************************)
\* history: is_interrupted seen true while an execution generates or speaks
MarkInterrupted(cycf, st) ==
    [c \in Cycles |->
        IF st.is_interrupted /\ cycf[c].pc \in GenPcs
        THEN [cycf[c] EXCEPT !.intr = TRUE] ELSE cycf[c]]

\* history: barge-ins by partial transcripts are counted per speaking span
SpanHistory(gg, st) ==
    IF st.is_speaking # state.is_speaking THEN [gg EXCEPT !.barge = 0] ELSE gg

\* which send of the step being taken suspends the task: none (0), the
\* first or the second it reaches
StallChoices == IF stallsLeft > 0 THEN 0..2 ELSE {0}

CommitCycle(ctx) ==
    \E at \in {ctx} :
        /\ at.stallAt = 0 \/ at.c.pc \in SendPcs
        /\ state' = at.st
        /\ cyc' = MarkInterrupted([cyc EXCEPT ![at.id] = at.c], at.st)
        /\ obs' = at.out
        /\ g' = SpanHistory(IF at.c.pc = "done"
                             THEN [at.g EXCEPT !.log[at.id] = <<>>] ELSE at.g, at.st)
        /\ stallsLeft' = IF at.c.pc \in SendPcs THEN stallsLeft - 1 ELSE stallsLeft
        /\ UNCHANGED <<processing_task, running, handlers, finalsLeft, eventsLeft, proc>>

\* The task suspended at pc may take a step of its own: cancel() has not
\* been called on it, and no created task still waits for its first step
\* (the event loop runs a created task before it resumes a task with an
\* answer that arrives later).  Created tasks take their first steps in the
\* order of their creation, which is the order of their slots.
Runs(c, pc) ==
    /\ cyc[c].pc = pc
    /\ ~cyc[c].cancelReq
    /\ pc # "start" => \A d \in Cycles : cyc[d].pc # "start"
    /\ pc = "start" => \A d \in 1..(c - 1) : cyc[d].pc # "start"

RECURSIVE Concat(_)
Concat(tokens) == IF tokens = <<>> THEN <<>> ELSE Head(tokens) \o Concat(Tail(tokens))

\* stream s agrees with the tokens the task has received so far
Streaming(c, s) ==
    /\ Len(s) >= cyc[c].ntok
    /\ Concat(SubSeq(s, 1, cyc[c].ntok)) = cyc[c].response_text

\* the event loop runs the created task for the first time
CycleStart(c) ==
    /\ Runs(c, "start")
    /\ CommitCycle(Run(Continue(Ctx(c, 0))))

\* the classification call returns
CycleRagAnswered(c, decision) ==
    /\ Runs(c, "rag")
    /\ \E sa \in StallChoices : CommitCycle(Run(OnRagAnswered(Ctx(c, sa), decision)))

\* the retrieval query returns
CycleSearchAnswered(c, results) ==
    /\ Runs(c, "search")
    /\ \E sa \in StallChoices : CommitCycle(Run(OnSearchAnswered(Ctx(c, sa), results)))

\* the generation stream s yields its next token
CycleToken(c, s) ==
    /\ Runs(c, "llm")
    /\ Streaming(c, s) /\ Len(s) > cyc[c].ntok
    /\ \E sa \in StallChoices : CommitCycle(Run(OnToken(Ctx(c, sa), s[cyc[c].ntok + 1])))

\* the generation stream s ends
CycleStreamEnd(c, s) ==
    /\ Runs(c, "llm")
    /\ Streaming(c, s) /\ Len(s) = cyc[c].ntok
    /\ \E sa \in StallChoices : CommitCycle(Run(SetPc(Ctx(c, sa), "after_loop")))

\* the generation stream raises (a transport failure)
CycleStreamError(c) ==
    /\ Runs(c, "llm")
    /\ \E sa \in StallChoices : CommitCycle(Run(OnException(Ctx(c, sa))))

\* the synthesis stream yields a chunk
CycleChunk(c) ==
    /\ Runs(c, "tts")
    /\ cyc[c].chunks < MaxChunks
    /\ \E sa \in StallChoices : CommitCycle(Run(OnChunk(Ctx(c, sa))))

\* the synthesis stream ends
CycleSynthEnd(c) ==
    /\ Runs(c, "tts")
    /\ \E sa \in StallChoices : CommitCycle(Run(SetPc(Ctx(c, sa), "after_speak")))

\* the error of the retrieval query reaches the except Exception handler of
\* _process_user_input
CycleSearchError_Raises(c) ==
    /\ Runs(c, "search")
    /\ \E sa \in StallChoices : CommitCycle(Run(OnException(Ctx(c, sa))))

\* the retrieval query raises: _maybe_get_rag_context logs the error and
\* returns "" (lines 478-481)
CycleSearchError(c) ==
    /\ Runs(c, "search")
    /\ \E sa \in StallChoices :
          CommitCycle(Run(Emit(SetPc(Ctx(c, sa), "add_user"), "log", "RAG error")))

\* the synthesis request raises: synthesize logs the error and its stream ends
\* (text_to_speech.py, lines 75-76)
CycleSynthError(c) ==
    /\ Runs(c, "tts")
    /\ \E sa \in StallChoices :
          CommitCycle(Run(Emit(SetPc(Ctx(c, sa), "after_speak"), "log", "Request error")))

\* a send that suspended the task completes
CycleSendDone(c, pc) ==
    /\ Runs(c, pc)
    /\ \E sa \in StallChoices : CommitCycle(Run(Continue(Ctx(c, sa))))

\* the cancelled task is resumed with CancelledError
CycleCancelled(c) ==
    /\ cyc[c].cancelReq
    /\ cyc[c].pc \in ActivePcs \cup {"start"}
    /\ CommitCycle(OnCancelled(Ctx(c, 0)))

(***************************************************************************)
(* Inputs: the transcription callbacks and the client's messages.          *)
(***************************************************************************)
\* self._processing_task.cancel() under "if self._processing_task and not
\* self._processing_task.done()"
CancelProcessingTask(cycf) ==
    IF processing_task # 0 /\ cycf[processing_task].pc # "done"
    THEN [cycf EXCEPT ![processing_task].cancelReq = TRUE]
    ELSE cycf

CommitInput(st, cycf, out, gg) ==
    /\ state' = st
    /\ cyc' = MarkInterrupted(cycf, st)
    /\ obs' = out
    /\ g' = SpanHistory(gg, st)
    /\ UNCHANGED proc

\* lines 189-203: the barge-in of a partial transcript
PartialBargeIn(text) ==
    CommitInput([state EXCEPT !.is_interrupted = TRUE,
                              !.pending_interrupt_text = Some(text)],
                CancelProcessingTask(cyc),
                <<Obs("clear_audio", TRUE, 0), Obs("partial_transcript", text, 0)>>,
                [g EXCEPT !.pendingInterruptIds = {},
                          !.barge = IF state.is_speaking THEN @ + 1 ELSE @])

\* _on_partial_transcript with the echo check after the check of is_interrupted
OnPartialTranscript_EchoCheckedLate(text) ==
    /\ running /\ eventsLeft > 0
    /\ eventsLeft' = eventsLeft - 1
    /\ UNCHANGED <<processing_task, running, handlers, finalsLeft, stallsLeft>>
    /\ IF state.is_interrupted
       THEN CommitInput([state EXCEPT !.pending_interrupt_text = Some(text)], cyc,
                        <<Obs("partial_transcript", text, 0)>>,
                        [g EXCEPT !.pendingInterruptIds = {}])
       ELSE IF is_echo(state, text)
       THEN CommitInput(state, cyc, <<>>, g)
       ELSE IF state.is_speaking \/ state.is_audio_playing
       THEN PartialBargeIn(text)
       ELSE CommitInput(state, cyc, <<Obs("partial_transcript", text, 0)>>, g)

\* _on_partial_transcript with a barge-in also while the reply is generated
OnPartialTranscript_BargeInWhileProcessing(text) ==
    /\ running /\ eventsLeft > 0
    /\ eventsLeft' = eventsLeft - 1
    /\ UNCHANGED <<processing_task, running, handlers, finalsLeft, stallsLeft>>
    /\ IF is_echo(state, text)
       THEN CommitInput(state, cyc, <<>>, g)
       ELSE IF state.is_interrupted
       THEN CommitInput([state EXCEPT !.pending_interrupt_text = Some(text)], cyc,
                        <<Obs("partial_transcript", text, 0)>>,
                        [g EXCEPT !.pendingInterruptIds = {}])
       ELSE IF state.is_speaking \/ state.is_audio_playing \/ state.is_processing
       THEN PartialBargeIn(text)
       ELSE CommitInput(state, cyc, <<Obs("partial_transcript", text, 0)>>, g)

\* _on_partial_transcript
OnPartialTranscript(text) ==
    /\ running /\ eventsLeft > 0
    /\ eventsLeft' = eventsLeft - 1
    /\ UNCHANGED <<processing_task, running, handlers, finalsLeft, stallsLeft>>
    /\ IF is_echo(state, text)
       THEN CommitInput(state, cyc, <<>>, g)
       ELSE IF state.is_interrupted
       THEN CommitInput([state EXCEPT !.pending_interrupt_text = Some(text)], cyc,
                        <<Obs("partial_transcript", text, 0)>>,
                        [g EXCEPT !.pendingInterruptIds = {}])
       ELSE IF state.is_speaking \/ state.is_audio_playing
       THEN PartialBargeIn(text)
       ELSE CommitInput(state, cyc, <<Obs("partial_transcript", text, 0)>>, g)

\* the first task slot not in use
FreeSlot == CHOOSE c \in Cycles : cyc[c].pc = "idle" /\ \A d \in 1..(c-1) : cyc[d].pc # "idle"

\* lines 222 and 254: asyncio.create_task(self._process_user_input(text))
CreateProcessingTask(cycf, text, id) ==
    [cycf EXCEPT ![FreeSlot] = [IdleCyc EXCEPT !.pc = "start", !.text = text, !.ids = {id}]]

\* lines 216-224 up to the sleep: the final transcript that ends a barge-in
FinalInterrupted(text, id) ==
    /\ CommitInput([state EXCEPT !.is_interrupted = FALSE,
                                 !.pending_interrupt_text = NoneT],
                   cyc, <<Obs("user_transcript", text, 0)>>,
                   [g EXCEPT !.pendingInterruptIds = {}, !.accepted = @ \cup {id}])
    /\ handlers' = handlers \cup {[kind |-> "grace", text |-> text, id |-> id]}
    /\ UNCHANGED <<processing_task, stallsLeft>>

\* lines 230-231 without line 229: is_interrupted is left as it is
BargeInState_NotInterrupted(st, text) ==
    [st EXCEPT !.pending_interrupt_text = Some(text), !.is_audio_playing = FALSE]

\* lines 229-231: the flags a final transcript during speech sets
BargeInState(st, text) ==
    [st EXCEPT !.is_interrupted = TRUE, !.pending_interrupt_text = Some(text),
               !.is_audio_playing = FALSE]

\* lines 226-239: a final transcript during speech
FinalBargeIn(text, id) ==
    /\ CommitInput(BargeInState(state, text),
                   CancelProcessingTask(cyc),
                   <<Obs("clear_audio", TRUE, 0), Obs("user_transcript", text, 0),
                     Obs("status", "interrupted", 0)>>,
                   [g EXCEPT !.pendingInterruptIds = {id}, !.accepted = @ \cup {id}])
    /\ UNCHANGED <<handlers, processing_task, stallsLeft>>

\* lines 241-249: a final transcript while the reply is being generated
FinalQueued(text, id) ==
    /\ CommitInput([state EXCEPT !.pending_user_text =
                        IF Truthy(@) THEN Some(@[1] \o <<" ">> \o text) ELSE Some(text)],
                   cyc, <<Obs("user_transcript", text, 0)>>,
                   [g EXCEPT !.pendingUserIds =
                                 IF Truthy(state.pending_user_text)
                                 THEN @ \cup {id} ELSE {id},
                             !.accepted = @ \cup {id}])
    /\ UNCHANGED <<handlers, processing_task, stallsLeft>>

\* lines 251-255: a final transcript in the listening state; the send of
\* user_transcript suspends the handler (stall) or not
FinalNormal(text, id) ==
    \E stall \in {s \in BOOLEAN : s => stallsLeft > 0} :
       IF stall
       THEN /\ CommitInput(state, cyc, <<Obs("user_transcript", text, 0)>>,
                           [g EXCEPT !.accepted = @ \cup {id}])
            /\ handlers' = handlers \cup {[kind |-> "sent", text |-> text, id |-> id]}
            /\ stallsLeft' = stallsLeft - 1
            /\ UNCHANGED processing_task
       ELSE /\ CommitInput(state, CreateProcessingTask(cyc, text, id),
                           <<Obs("user_transcript", text, 0)>>,
                           [g EXCEPT !.accepted = @ \cup {id}])
            /\ processing_task' = FreeSlot
            /\ UNCHANGED <<handlers, stallsLeft>>

\* Every task on which cancel() was called has been resumed with its
\* CancelledError.  cancel() schedules that resumption on the event loop at
\* once, so it runs before a task created later takes its first step and
\* before a delay started later ends.
CancelsDelivered ==
    \A c \in Cycles : ~(cyc[c].cancelReq /\ cyc[c].pc \in ActivePcs \cup {"start"})

\* the branch of _on_final_transcript taken in session state st (lines 211,
\* 216, 227, 242)
FinalBranch(st, text) ==
    IF is_echo(st, text) THEN "echo"
    ELSE IF st.is_interrupted THEN "interrupted"
    ELSE IF st.is_speaking \/ st.is_audio_playing THEN "barge_in"
    ELSE IF st.is_processing /\ ~st.is_speaking THEN "queued"
    ELSE "normal"

\* _on_final_transcript, run as a task of its own (start, line 87); id
\* numbers the transcript for the history variables
OnFinalTranscript(text) ==
    /\ running /\ finalsLeft > 0
    /\ CancelsDelivered
    /\ finalsLeft' = finalsLeft - 1
    /\ UNCHANGED <<running, eventsLeft>>
    /\ LET id == finalsLeft
           branch == FinalBranch(state, text)
       IN IF branch = "echo"
          THEN /\ CommitInput(state, cyc, <<>>, g)
               /\ UNCHANGED <<handlers, processing_task, stallsLeft>>
          ELSE IF branch = "interrupted" THEN FinalInterrupted(text, id)
          ELSE IF branch = "barge_in" THEN FinalBargeIn(text, id)
          ELSE IF branch = "queued" THEN FinalQueued(text, id)
          ELSE FinalNormal(text, id)

\* a suspended _on_final_transcript task goes on to lines 222 or 254
FinalHandlerResumes(h) ==
    /\ h \in handlers
    /\ h.kind = "grace" => CancelsDelivered
    /\ cyc' = CreateProcessingTask(cyc, h.text, h.id)
    /\ processing_task' = FreeSlot
    /\ handlers' = handlers \ {h}
    /\ obs' = <<>>
    /\ UNCHANGED <<state, running, finalsLeft, eventsLeft, stallsLeft, g, proc>>

\* handle_audio_status
HandleAudioStatus(playing) ==
    /\ running /\ eventsLeft > 0
    /\ playing # state.is_audio_playing
    /\ eventsLeft' = eventsLeft - 1
    /\ CommitInput([state EXCEPT !.is_audio_playing = playing], cyc, <<>>, g)
    /\ UNCHANGED <<processing_task, running, handlers, finalsLeft, stallsLeft>>

\* an interrupt signal handled like a barge-in: the processing task is
\* cancelled and clear_audio is sent
HandleUserSpeakingInterrupt_Cancels ==
    /\ running /\ eventsLeft > 0
    /\ eventsLeft' = eventsLeft - 1
    /\ CommitInput([state EXCEPT !.is_interrupted = TRUE, !.is_audio_playing = FALSE],
                   CancelProcessingTask(cyc), <<Obs("clear_audio", TRUE, 0)>>, g)
    /\ UNCHANGED <<processing_task, running, handlers, finalsLeft, stallsLeft>>

\* handle_user_speaking_interrupt
HandleUserSpeakingInterrupt ==
    /\ running /\ eventsLeft > 0
    /\ eventsLeft' = eventsLeft - 1
    /\ CommitInput([state EXCEPT !.is_interrupted = TRUE, !.is_audio_playing = FALSE],
                   cyc, <<>>, g)
    /\ UNCHANGED <<processing_task, running, handlers, finalsLeft, stallsLeft>>

\* configure(tasks=...)
Configure ==
    /\ running /\ eventsLeft > 0
    /\ eventsLeft' = eventsLeft - 1
    /\ CommitInput([state EXCEPT !.tasks = ConfigTasks], cyc, <<>>, g)
    /\ UNCHANGED <<processing_task, running, handlers, finalsLeft, stallsLeft>>

\* the client's clear_history message (web/server.py, lines 156-159)
ClearHistory ==
    /\ running /\ eventsLeft > 0
    /\ eventsLeft' = eventsLeft - 1
    /\ CommitInput([state EXCEPT !.conversation_history = <<>>], cyc, <<>>, g)
    /\ UNCHANGED <<processing_task, running, handlers, finalsLeft, stallsLeft>>

\* stop: the client's connection has ended, no further input arrives
Stop ==
    /\ running
    /\ running' = FALSE
    /\ finalsLeft' = 0 /\ eventsLeft' = 0
    /\ obs' = <<>>
    /\ UNCHANGED <<state, processing_task, cyc, handlers, stallsLeft, g, proc>>

(***************************************************************************)
(* The session after start() has returned True.                            *)
(***************************************************************************)
Init ==
    /\ state = SessionState
    /\ processing_task = 0
    /\ running = TRUE
    /\ cyc = [c \in Cycles |-> IdleCyc]
    /\ handlers = {}
    /\ obs = <<>>
    /\ finalsLeft = MaxFinals
    /\ eventsLeft = MaxEvents
    /\ stallsLeft = MaxStalls
    /\ g = GInit
    /\ proc = NoCall

Next ==
    \/ \E text \in PartialTexts : OnPartialTranscript(text)
    \/ \E text \in FinalTexts : OnFinalTranscript(text)
    \/ \E h \in handlers : FinalHandlerResumes(h)
    \/ \E playing \in BOOLEAN : HandleAudioStatus(playing)
    \/ HandleUserSpeakingInterrupt
    \/ Configure
    \/ Stop
    \/ \E c \in Cycles :
          \/ CycleStart(c)
          \/ \E decision \in ClassifierOutputs : CycleRagAnswered(c, decision)
          \/ \E results \in SearchResults : CycleSearchAnswered(c, results)
          \/ \E s \in LlmStreams : CycleToken(c, s)
          \/ \E s \in LlmStreams : CycleStreamEnd(c, s)
          \/ CycleStreamError(c)
          \/ CycleChunk(c)
          \/ CycleSynthEnd(c)
          \/ \E pc \in SendPcs : CycleSendDone(c, pc)
          \/ CycleCancelled(c)

Spec == Init /\ [][Next]_vars

(***************************************************************************)
(* A session of three final transcripts and two partial transcripts in     *)
(* which every send completes at once, the classification answers NONE and *)
(* the generation stream is TokensA.                                       *)
(***************************************************************************)
InitThreeFinals ==
    /\ state = SessionState
    /\ processing_task = 0
    /\ running = TRUE
    /\ cyc = [c \in Cycles |-> IdleCyc]
    /\ handlers = {}
    /\ obs = <<>>
    /\ finalsLeft = MaxFinals + 1
    /\ eventsLeft = MaxEvents + 1
    /\ stallsLeft = 0
    /\ g = GInit
    /\ proc = NoCall

NextThreeFinals ==
    \/ OnPartialTranscript(U_plan)
    \/ OnFinalTranscript(U_plan)
    \/ \E h \in handlers : FinalHandlerResumes(h)
    \/ \E c \in Cycles :
          \/ CycleStart(c)
          \/ CycleRagAnswered(c, <<"N","O","N","E">>)
          \/ CycleToken(c, TokensA)
          \/ CycleStreamEnd(c, TokensA)
          \/ CycleChunk(c)
          \/ CycleSynthEnd(c)
          \/ CycleCancelled(c)

SpecThreeFinals == InitThreeFinals /\ [][NextThreeFinals]_vars

(***************************************************************************)
(* Properties.                                                             *)
(***************************************************************************)
\* the executions of the processing cycle that have started and not returned
ActiveCycles == {c \in Cycles : cyc[c].pc \in ActivePcs}

\* the audio observations of the last step
AudioSent == {i \in DOMAIN obs : obs[i].type = "audio"}

\* C1: at most one processing cycle is active at any time
C1_OneActiveCycle == Cardinality(ActiveCycles) <= 1

\* C2: once a newer cycle has been started, no audio chunk of an earlier
\* cycle is forwarded: every chunk sent comes from the cycle started last
C2_NoAudioOfEarlierCycle ==
    \A i \in AudioSent : cyc[obs[i].cyc].seq = g.nStarted

\* C3: a cycle that saw isInterrupted become true while it was generating or
\* speaking forwards no further audio chunk
C3_NoAudioAfterInterrupt ==
    \A i \in AudioSent : ~cyc[obs[i].cyc].intr

\* the text of final transcript i is still held by the session: by a handler
\* that has not created its task, by a cycle that has not appended its user
\* message, or by one of the pending fields
Held(i) ==
    \/ i \in g.pendingInterruptIds \cup g.pendingUserIds
    \/ \E h \in handlers : h.id = i
    \/ \E c \in Cycles : cyc[c].pc \in {"start", "rag", "search", "rag_sent"} /\ i \in cyc[c].ids

\* C4: no accepted final transcript is dropped: each is in a user message of
\* the history, or the session still holds its text (a text held nowhere can
\* never reach the history)
C4_NoFinalDropped ==
    \A i \in g.accepted : g.inHist[i] >= 1 \/ Held(i)

\* C5: the text of one final transcript is given to at most one processing
\* cycle and appears in at most one user message of the history
C5_NoDoubleProcessing ==
    \A i \in DOMAIN g.given : g.given[i] <= 1 /\ g.inHist[i] <= 1

\* a final transcript queued in pending_user_text was consumed by a follow-up
\* cycle and is in the history
C5_Witness ==
    \E i \in g.followUps : g.given[i] = 1 /\ g.inHist[i] = 1

\* C6: pendingInterruptText is non-null only if isInterrupted is true
C6_PendingOnlyIfInterrupted ==
    state.pending_interrupt_text # NoneT => state.is_interrupted

\* the step handles a transcript, not recognised as an echo, whose text
\* equals a sentence synthesized in the current turn, while the turn is
\* spoken or its audio is playing
OwnSpeechHandled ==
    /\ state.is_speaking \/ state.is_audio_playing
    /\ \E i \in DOMAIN obs' :
          /\ obs'[i].type \in {"user_transcript", "partial_transcript"}
          /\ Lower(obs'[i].data) \in g.spoken

\* C7: a transcript equal to a sentence synthesized in the current turn,
\* arriving while the turn is spoken or its audio is playing, sets no
\* isInterrupted, cancels no cycle and starts no cycle
C7_OwnSpeechIsNoInput ==
    [][OwnSpeechHandled =>
          /\ state'.is_interrupted = state.is_interrupted
          /\ \A c \in Cycles : cyc'[c].cancelReq = cyc[c].cancelReq
          /\ \A c \in Cycles : cyc[c].pc = "idle" => cyc'[c].pc = "idle"
          /\ handlers' = handlers]_vars

\* C8: when a processing cycle ends, however it ends, isProcessing,
\* isSpeaking and isAudioPlaying are all false
C8_FlagsResetAtCycleEnd ==
    [][\A c \in Cycles :
          cyc[c].pc \in ActivePcs /\ cyc'[c].pc = "done" =>
             /\ ~state'.is_processing
             /\ ~state'.is_speaking
             /\ ~state'.is_audio_playing]_vars

\* C9: in one speaking span the barge-in of a partial transcript (interrupt
\* flag set, clear_audio sent) is triggered at most once
C9_OneBargeInPerSpan == g.barge <= 1

\* the step is the first final transcript of a barge-in: a final transcript
\* accepted while a cycle is speaking and no interruption is flagged
FirstFinalOfBargeIn ==
    /\ state.is_speaking /\ ~state.is_interrupted
    /\ \E i \in DOMAIN obs' : obs'[i].type = "user_transcript"

\* the step is the final transcript that follows it
SecondFinalOfBargeIn ==
    /\ state.is_interrupted /\ g.pendingInterruptIds # {}
    /\ \E i \in DOMAIN obs' : obs'[i].type = "user_transcript"

\* C10: the first final transcript during speech sets isInterrupted, stores
\* its text, cancels every running cycle and starts none; the next final
\* transcript starts one cycle (after the grace delay) with its own text
C10_TwoStepBargeIn ==
    [][/\ FirstFinalOfBargeIn =>
             /\ state'.is_interrupted
             /\ \E i \in DOMAIN obs' : obs'[i].type = "user_transcript"
                                       /\ state'.pending_interrupt_text = Some(obs'[i].data)
             /\ \A c \in ActiveCycles : cyc'[c].cancelReq
             /\ \A c \in Cycles : cyc[c].pc = "idle" => cyc'[c].pc = "idle"
             /\ handlers' = handlers
       /\ SecondFinalOfBargeIn =>
             /\ \A c \in Cycles : cyc[c].pc = "idle" => cyc'[c].pc = "idle"
             /\ \E h \in handlers' \ handlers :
                   /\ handlers' = handlers \cup {h}
                   /\ \E i \in DOMAIN obs' : obs'[i].type = "user_transcript"
                                             /\ h.text = obs'[i].data]_vars

\* C11: whenever a cycle that has produced response text ends because of an
\* interruption (its task was cancelled by a barge-in, or is_interrupted is
\* set when it returns), the history holds an assistant message for the turn
\* whose content ends with " [interrupted]"
C11_InterruptedTurnIsRecorded ==
    [][\A c \in Cycles :
          /\ cyc[c].pc \in ActivePcs /\ cyc'[c].pc = "done"
          /\ cyc[c].response_text # <<>>
          /\ cyc[c].cancelReq \/ state.is_interrupted
          => \E i \in DOMAIN state'.conversation_history :
                /\ state'.conversation_history[i].role = "assistant"
                /\ EndsWith(state'.conversation_history[i].content,
                            InterruptedSuffix)]_vars

(***************************************************************************)
(* A session in which one final transcript arrives in the listening state  *)
(* and nothing follows it; no collaborator fails.  The event loop resumes  *)
(* every task that is ready, every collaborator answers and every send     *)
(* completes: weak fairness of each step of a task.                        *)
(***************************************************************************)
InitOneFinal ==
    /\ state = SessionState
    /\ processing_task = 0
    /\ running = TRUE
    /\ cyc = [c \in Cycles |-> IdleCyc]
    /\ handlers = {}
    /\ obs = <<>>
    /\ finalsLeft = 1
    /\ eventsLeft = 0
    /\ stallsLeft = MaxStalls + 1
    /\ g = GInit
    /\ proc = NoCall

NextOneFinal ==
    \/ \E text \in FinalTexts : OnFinalTranscript(text)
    \/ \E h \in handlers : FinalHandlerResumes(h)
    \/ \E c \in Cycles :
          \/ CycleStart(c)
          \/ \E decision \in ClassifierOutputs : CycleRagAnswered(c, decision)
          \/ \E results \in SearchResults : CycleSearchAnswered(c, results)
          \/ \E s \in LlmStreams : CycleToken(c, s) \/ CycleStreamEnd(c, s)
          \/ CycleChunk(c)
          \/ CycleSynthEnd(c)
          \/ \E pc \in SendPcs : CycleSendDone(c, pc)

SpecOneFinal ==
    /\ InitOneFinal /\ [][NextOneFinal]_vars
    /\ WF_vars(\E h \in handlers : FinalHandlerResumes(h))
    /\ \A c \in Cycles :
          /\ WF_vars(CycleStart(c))
          /\ WF_vars(\E decision \in ClassifierOutputs : CycleRagAnswered(c, decision))
          /\ WF_vars(\E results \in SearchResults : CycleSearchAnswered(c, results))
          /\ WF_vars(\E s \in LlmStreams : CycleToken(c, s) \/ CycleStreamEnd(c, s))
          /\ WF_vars(CycleChunk(c) \/ CycleSynthEnd(c))
          /\ WF_vars(\E pc \in SendPcs : CycleSendDone(c, pc))

\* the observations of the last step that have the given type
Sent(type) == {i \in DOMAIN obs : obs[i].type = type}

\* the task created for a final transcript that contains a trigger keyword
KeywordTask(c) == cyc[c].pc = "start" /\ should_check_rag(cyc[c].text)

\* C12: from Listening, after a non-echo final transcript with a trigger
\* keyword and no further event, a cycle starts; a search directive with
\* results is followed by a rag_results observation; generated text is
\* followed by an agent_response observation; and the cycle terminates with
\* isProcessing and isSpeaking false
C12_EndToEnd ==
    /\ \A c \in Cycles :
          /\ KeywordTask(c) ~> (cyc[c].pc \in ActivePcs /\ state.is_processing)
          /\ KeywordTask(c) ~> (/\ cyc[c].pc = "done"
                                /\ ~state.is_processing /\ ~state.is_speaking)
          /\ (cyc[c].response_text # <<>>) ~> (Sent("agent_response") # {})
    /\ [][\A c \in Cycles :
             cyc[c].pc = "search" /\ cyc'[c].rag_context # <<>>
             => \E i \in DOMAIN obs' : obs'[i].type = "rag_results"]_vars

\* the cycle of a keyword transcript has ended in the step that sent the
\* agent's response, with the retrieved context in its user message
C12_Witness ==
    /\ cyc[1].pc = "done"
    /\ Sent("agent_response") # {}
    /\ ~state.is_processing /\ ~state.is_speaking
    /\ Len(state.conversation_history) = 2
    /\ Contains(state.conversation_history[1].content, ContextHeader)

(***************************************************************************)
(* A session of three final transcripts and client interrupt signals in    *)
(* which a final transcript is handled only when every created task has    *)
(* taken its first step; every send completes at once, the classification  *)
(* answers NONE and the generation stream is TokensA.                      *)
(***************************************************************************)
NextQueued ==
    \/ HandleUserSpeakingInterrupt
    \/ /\ \A c \in Cycles : cyc[c].pc # "start"
       /\ OnFinalTranscript(U_plan)
    \/ \E h \in handlers : FinalHandlerResumes(h)
    \/ \E c \in Cycles :
          \/ CycleStart(c)
          \/ CycleRagAnswered(c, <<"N","O","N","E">>)
          \/ CycleToken(c, TokensA)
          \/ CycleStreamEnd(c, TokensA)
          \/ CycleChunk(c)
          \/ CycleSynthEnd(c)
          \/ CycleCancelled(c)

SpecQueued == InitThreeFinals /\ [][NextQueued]_vars

\* pending_user_text holds queued, or queued followed by a blank and one more
\* transcript
KeepsQueued(pending, queued) ==
    pending \in {Some(queued)} \cup {Some(queued \o <<" ">> \o t) : t \in FinalTexts}

\* the step starts the follow-up cycle of a running cycle with the text queued
FollowUpStarts(queued) ==
    /\ state'.pending_user_text = NoneT
    /\ \E c \in Cycles :
          /\ cyc[c].pc \in ActivePcs /\ cyc'[c].pc \in ActivePcs
          /\ cyc'[c].seq > cyc[c].seq
          /\ cyc'[c].text = queued

\* a cycle is running that no barge-in and no interrupt signal has interrupted
UninterruptedCycle ==
    /\ ~state.is_interrupted
    /\ \E c \in Cycles : cyc[c].pc \in ActivePcs /\ ~cyc[c].cancelReq /\ ~cyc[c].intr

\* C13: a final transcript that arrives while a cycle is processing and the
\* agent is neither speaking nor playing nor interrupted is appended to
\* pendingUserText, joined by a blank, and starts or cancels no cycle; while
\* the cycle runs uninterrupted the queued text stays queued, until the one
\* follow-up cycle starts with exactly that text and pendingUserText is cleared
C13_QueuedTextIsProcessed ==
    [][/\ /\ finalsLeft' < finalsLeft
          /\ state.is_processing /\ ~state.is_speaking /\ ~state.is_audio_playing
          /\ ~state.is_interrupted
          /\ obs' # <<>>
          => /\ state'.pending_user_text =
                   IF Truthy(state.pending_user_text)
                   THEN Some(state.pending_user_text[1] \o <<" ">> \o obs'[1].data)
                   ELSE Some(obs'[1].data)
             /\ \A c \in Cycles :
                   cyc'[c].pc = cyc[c].pc /\ cyc'[c].cancelReq = cyc[c].cancelReq
       /\ Truthy(state.pending_user_text) /\ UninterruptedCycle
          => \/ KeepsQueued(state'.pending_user_text, state.pending_user_text[1])
             \/ FollowUpStarts(state.pending_user_text[1])]_vars

(***************************************************************************)
(* The session of one final transcript in which the calls of the           *)
(* collaborators may fail.                                                 *)
(***************************************************************************)
NextFailures ==
    \/ NextOneFinal
    \/ \E c \in Cycles : CycleStreamError(c) \/ CycleSearchError(c) \/ CycleSynthError(c)

SpecFailures == InitOneFinal /\ [][NextFailures]_vars

\* the step logs the failure of a collaborator call of cycle c
FailureLogged(c) == \E i \in DOMAIN obs' : obs'[i].type = "log" /\ obs'[i].cyc = c

\* C14: when a generation, synthesis or retrieval call of a cycle fails, an
\* error observation is emitted, the rest of the cycle's work is abandoned and
\* the session returns to listening with isProcessing and isSpeaking false
C14_FailureIsReported ==
    [][\A c \in Cycles :
          FailureLogged(c)
          => /\ \E i \in DOMAIN obs' : obs'[i].type = "error" /\ obs'[i].cyc = c
             /\ cyc'[c].pc \in {"done", "error_sent"} \/ cyc'[c].seq > cyc[c].seq
             /\ cyc'[c].pc = "done" => ~state'.is_processing /\ ~state'.is_speaking]_vars

(***************************************************************************)
(* A session of three final transcripts and the client's config and        *)
(* clear_history messages in which every send completes at once, the       *)
(* classification answers NONE and the generation stream is TokensA, whose *)
(* marker names task 1.                                                    *)
(***************************************************************************)
NextTasks ==
    \/ Configure
    \/ ClearHistory
    \/ OnFinalTranscript(U_plan)
    \/ \E h \in handlers : FinalHandlerResumes(h)
    \/ \E c \in Cycles :
          \/ CycleStart(c)
          \/ CycleRagAnswered(c, <<"N","O","N","E">>)
          \/ CycleToken(c, TokensA)
          \/ CycleStreamEnd(c, TokensA)
          \/ CycleChunk(c)
          \/ CycleSynthEnd(c)
          \/ CycleCancelled(c)

SpecTasks == InitThreeFinals /\ [][NextTasks]_vars

\* the ids of the task_update observations of the step
TaskUpdates == {obs'[i].data : i \in {j \in DOMAIN obs' : obs'[j].type = "task_update"}}

\* the step completes the open task at index i and changes nothing else of it
Completes(i) ==
    /\ ~state.tasks[i].completed
    /\ state'.tasks[i] = [state.tasks[i] EXCEPT !.completed = TRUE]

\* C15: a completion marker that names an unknown or an already completed
\* task changes no task and surfaces no error (the steps of a cycle change a
\* task only by completing an open one, with its task_update; an error is
\* sent only for a logged exception); and each task receives at most one
\* task_update observation
C15_OneUpdatePerTask ==
    /\ [][eventsLeft' = eventsLeft
          => /\ Len(state'.tasks) = Len(state.tasks)
             /\ \A i \in DOMAIN state.tasks :
                   state'.tasks[i] # state.tasks[i]
                   => Completes(i) /\ state.tasks[i].id \in TaskUpdates
             /\ \A id \in TaskUpdates :
                   \E i \in DOMAIN state.tasks : Completes(i) /\ state.tasks[i].id = id
             /\ (\E i \in DOMAIN obs' : obs'[i].type = "error")
                   => \E i \in DOMAIN obs' : obs'[i].type = "log"]_vars
    /\ [](\A i, j \in DOMAIN g.updates : i # j => g.updates[i] # g.updates[j])

\* C16: a task is never deleted, and it is mutated only when the orchestrator
\* sees a matching marker: the set of task ids never shrinks and completed
\* changes only from false to true
C16_TasksOnlyComplete ==
    [][\A i \in DOMAIN state.tasks :
          \E j \in DOMAIN state'.tasks :
             /\ state'.tasks[j].id = state.tasks[i].id
             /\ state'.tasks[j].description = state.tasks[i].description
             /\ state.tasks[i].completed => state'.tasks[j].completed]_vars

\* C17: the conversation history is append-only: every message keeps its
\* role, its content and its position, and the history changes only by
\* appending
C17_HistoryAppendOnly ==
    [][/\ Len(state'.conversation_history) >= Len(state.conversation_history)
       /\ SubSeq(state'.conversation_history, 1, Len(state.conversation_history))
             = state.conversation_history]_vars

(***************************************************************************)
(* The methods of ResponseProcessor on their own: static methods without   *)
(* state, called on texts made of the pieces that matter to them (marker   *)
(* parts, digits, brackets, blanks, newlines, sentence ends, letters).     *)
(***************************************************************************)
\* pieces a text is made of at most
MaxPieces == 4

Pieces == {MarkerOpen, <<"1">>, <<"]">>, <<" ">>, <<"\n">>, <<".">>, <<"a">>}

RECURSIVE TextsOf(_)
TextsOf(n) ==
    IF n = 0 THEN {<<>>}
    ELSE TextsOf(n - 1) \cup {t \o p : t \in TextsOf(n - 1), p \in Pieces}

Texts == TextsOf(MaxPieces)

InitProcessor ==
    /\ state = SessionState
    /\ processing_task = 0
    /\ running = FALSE
    /\ cyc = [c \in Cycles |-> IdleCyc]
    /\ handlers = {}
    /\ obs = <<>>
    /\ finalsLeft = 0
    /\ eventsLeft = 0
    /\ stallsLeft = 0
    /\ g = GInit
    /\ proc \in {[NoCall EXCEPT !.arg = text] : text \in Texts}

\* ResponseProcessor.strip_task_markers(text)
CallStripTaskMarkers ==
    /\ proc.method = "none"
    /\ proc' = [proc EXCEPT !.method = "strip_task_markers",
                            !.ret = strip_task_markers(proc.arg)]
    /\ UNCHANGED <<state, processing_task, running, cyc, handlers, obs,
                   finalsLeft, eventsLeft, stallsLeft, g>>

\* ResponseProcessor.extract_complete_sentences(buffer)
CallExtractCompleteSentences ==
    /\ proc.method = "none"
    /\ proc' = [proc EXCEPT !.method = "extract_complete_sentences",
                            !.ret = extract_complete_sentences(proc.arg)]
    /\ UNCHANGED <<state, processing_task, running, cyc, handlers, obs,
                   finalsLeft, eventsLeft, stallsLeft, g>>

NextProcessor ==
    \/ CallStripTaskMarkers
    \/ CallExtractCompleteSentences

SpecProcessor == InitProcessor /\ [][NextProcessor]_vars

\* C18: strip_task_markers is idempotent: applied to a text it has returned,
\* it returns that text unchanged
C18_StripIsIdempotent ==
    proc.method = "strip_task_markers" => strip_task_markers(proc.ret) = proc.ret

\* all of s is whitespace
AllWs(s) == \A i \in 1..Len(s) : IsWs(s[i])

\* buffer is: a blanks, complete, b blanks, remaining
TrimmedSplit(buffer, complete, remaining, a, b) ==
    /\ a + Len(complete) + b + Len(remaining) = Len(buffer)
    /\ AllWs(SubSeq(buffer, 1, a))
    /\ SubSeq(buffer, a + 1, a + Len(complete)) = complete
    /\ AllWs(SubSeq(buffer, a + Len(complete) + 1, a + Len(complete) + b))
    /\ From(buffer, a + Len(complete) + b) = remaining

\* a sentence ends in buffer: a terminator is followed by a space or is the
\* last character
HasSentenceEnd(buffer) ==
    \E i \in 1..Len(buffer) :
        /\ buffer[i] \in SENTENCE_ENDINGS
        /\ i = Len(buffer) \/ buffer[i + 1] = " "

\* C19: extract_complete_sentences loses and invents no text: the buffer is
\* the complete part followed by the remainder, but for blanks before each
\* of the two; without a terminator that is followed by a space or ends the
\* buffer, the result is ("", buffer)
C19_ExtractKeepsText ==
    proc.method = "extract_complete_sentences" =>
        /\ \E a \in 0..Len(proc.arg), b \in 0..Len(proc.arg) :
               TrimmedSplit(proc.arg, proc.ret[1], proc.ret[2], a, b)
        /\ ~HasSentenceEnd(proc.arg) => proc.ret = << <<>>, proc.arg >>

\* a buffer was split into a sentence and a remainder, and a blank between
\* them was trimmed
C19_Witness ==
    /\ proc.method = "extract_complete_sentences"
    /\ proc.ret[1] # <<>> /\ proc.ret[2] # <<>>
    /\ Len(proc.ret[1]) + Len(proc.ret[2]) < Len(proc.arg)

(***************************************************************************)
(* One turn whose generated text reaches the session in every split into   *)
(* tokens: the stream yields the tokens generate_stream takes from the     *)
(* chunks of the HTTP response, and where a chunk ends is up to the        *)
(* service.                                                                *)
(***************************************************************************)
\* tokens of one stream at most
MaxTokens == 3

GeneratedText == <<"O","k","."," ","G","o"," ","o","n",".">>

\* the ways to cut text into n tokens, none of them empty
RECURSIVE SplitsOf(_, _)
SplitsOf(text, n) ==
    IF n = 1 THEN (IF text = <<>> THEN {} ELSE {<<text>>})
    ELSE UNION {{<<SubSeq(text, 1, k)>> \o rest : rest \in SplitsOf(From(text, k), n - 1)} :
                   k \in 1..(Len(text) - 1)}

TokenSplits == UNION {SplitsOf(GeneratedText, n) : n \in 1..MaxTokens}

NextSplits ==
    \/ OnFinalTranscript(U_plan)
    \/ \E h \in handlers : FinalHandlerResumes(h)
    \/ \E c \in Cycles :
          \/ CycleStart(c)
          \/ CycleRagAnswered(c, <<"N","O","N","E">>)
          \/ \E s \in TokenSplits : CycleToken(c, s) \/ CycleStreamEnd(c, s)
          \/ CycleChunk(c)
          \/ CycleSynthEnd(c)
          \/ \E pc \in SendPcs : CycleSendDone(c, pc)

SpecSplits == InitOneFinal /\ [][NextSplits]_vars

\* s without its whitespace
NoWs(s) == SelectSeq(s, LAMBDA ch : ~IsWs(ch))

\* C20: in a cycle that is never interrupted, however the generated text is
\* split into tokens, the texts passed to _process_and_speak, in their order,
\* make up the generated text but for whitespace: between two tokens together
\* with what the sentence buffer still holds, and all of it once the trailing
\* text was passed
C20_NoSentenceLost ==
    \A c \in Cycles :
        ~cyc[c].intr /\ ~state.is_interrupted =>
            /\ cyc[c].pc = "llm" =>
                   NoWs(Concat(cyc[c].passed) \o cyc[c].sentence_buffer)
                       = NoWs(cyc[c].response_text)
            /\ cyc[c].pc = "tts" /\ cyc[c].tail =>
                   NoWs(Concat(cyc[c].passed)) = NoWs(cyc[c].response_text)

(***************************************************************************)
(* The echo window of SessionState on its own: track_agent_speech,         *)
(* clear_agent_speech_history and is_echo, called in any order on the      *)
(* state of a session that has started.                                    *)
(***************************************************************************)
\* sentences the agent speaks
Sentences == {<<"T","h","a","n","k"," ","y","o","u"," ","f","o","r"," ","c","a","l","l","i","n","g",".">>,
              <<"H","i"," ","A","l",".">>}

\* transcripts: the two of the documentation, and every part of the second
\* sentence, as spoken and lower-cased, bare and with a blank before or
\* after it
EchoTexts ==
    {<<"t","h","a","n","k"," ","y","o","u"," ","f","o","r">>,
     <<"c","o","m","p","l","e","t","e","l","y"," ","u","n","r","e","l","a","t","e","d">>}
    \cup {l \o t \o r :
             l \in {<<>>, <<" ">>}, r \in {<<>>, <<" ">>},
             t \in {SubSeq(s, i, j) : s \in {<<"H","i"," ","A","l",".">>, <<"h","i"," ","a","l",".">>},
                                      i \in 1..6, j \in 0..6}}

\* track_agent_speech(text); ret is what pop(0) removed, if it ran
CallTrackAgentSpeech(text) ==
    /\ state' = track_agent_speech(state, text)
    /\ proc' = [method |-> "track_agent_speech", arg |-> text,
                ret |-> IF Len(state.recent_agent_speech) + 1 > max_items
                        THEN <<Head(state.recent_agent_speech)>> ELSE <<>>]
    /\ UNCHANGED <<processing_task, running, cyc, handlers, obs,
                   finalsLeft, eventsLeft, stallsLeft, g>>

\* clear_agent_speech_history()
CallClearAgentSpeechHistory ==
    /\ state' = clear_agent_speech_history(state)
    /\ proc' = [method |-> "clear_agent_speech_history", arg |-> <<>>, ret |-> <<>>]
    /\ UNCHANGED <<processing_task, running, cyc, handlers, obs,
                   finalsLeft, eventsLeft, stallsLeft, g>>

\* is_echo(text)
CallIsEcho(text) ==
    /\ proc' = [method |-> "is_echo", arg |-> text, ret |-> is_echo(state, text)]
    /\ UNCHANGED <<state, processing_task, running, cyc, handlers, obs,
                   finalsLeft, eventsLeft, stallsLeft, g>>

NextEchoGuard ==
    \/ \E text \in Sentences : CallTrackAgentSpeech(text)
    \/ CallClearAgentSpeechHistory
    \/ \E text \in EchoTexts : CallIsEcho(text)

SpecEchoGuard == Init /\ [][NextEchoGuard]_vars

\* t occurs in s from the 0-based index k on
OccursAt(t, s, k) == k + Len(t) <= Len(s) /\ \A i \in 1..Len(t) : s[k + i] = t[i]

\* t is x in lower case
LowerOf(t, x) == Len(t) = Len(x) /\ \A i \in 1..Len(x) : t[i] = LowerChar(x[i])

\* some sentence of the window, lower-cased, holds text t or starts with it
InWindow(t) ==
    \E n \in 1..Len(state.recent_agent_speech) :
        \E k \in 0..Len(state.recent_agent_speech[n]) :
            OccursAt(t, Lower(state.recent_agent_speech[n]), k)

\* C21 as stated: is_echo(text) is true exactly when the lower-cased text is
\* a substring of a sentence of the window or a sentence starts with it, and
\* false for every text when the window is empty
C21_EchoIsLowerCasedSubstring ==
    proc.method = "is_echo" => (proc.ret <=> InWindow(Lower(proc.arg)))

\* C21 amended: is_echo(text) is true exactly when the text, lower-cased and
\* with the whitespace at its two ends removed, is a substring of a sentence
\* of the window or a sentence starts with it; it is false for every text
\* when the window is empty
C21_EchoIsTrimmedSubstring ==
    proc.method = "is_echo" =>
        /\ proc.ret <=>
              \E a \in 0..Len(proc.arg), b \in 0..Len(proc.arg) :
                  /\ a + b <= Len(proc.arg)
                  /\ AllWs(SubSeq(proc.arg, 1, a))
                  /\ AllWs(SubSeq(proc.arg, Len(proc.arg) - b + 1, Len(proc.arg)))
                  /\ a + b < Len(proc.arg) =>
                         ~IsWs(proc.arg[a + 1]) /\ ~IsWs(proc.arg[Len(proc.arg) - b])
                  /\ InWindow(Lower(SubSeq(proc.arg, a + 1, Len(proc.arg) - b)))
        /\ state.recent_agent_speech = <<>> => ~proc.ret

\* a transcript in other case than the sentence spoken, with a blank around
\* it, was found to be an echo
C21_Witness ==
    /\ proc.method = "is_echo" /\ proc.ret
    /\ proc.arg # <<>> /\ IsWs(proc.arg[1])
    /\ ~InWindow(proc.arg)
    /\ \A n \in 1..Len(state.recent_agent_speech) :
           \A k \in 0..Len(state.recent_agent_speech[n]) :
               ~OccursAt(Strip(proc.arg), state.recent_agent_speech[n], k)

\* w2 is the last n elements of all, in their order
LastOf(w2, all, n) == Len(w2) = n /\ \A i \in 1..n : w2[i] = all[Len(all) - n + i]

\* C22: the echo window never holds more than 3 sentences; recording a
\* sentence leaves the window with the sentence as its last element after the
\* most recent ones it held, in their order, the oldest evicted beyond 3;
\* clearing empties it; is_echo leaves it as it is
C22_WindowKeepsLastThree ==
    /\ [](Len(state.recent_agent_speech) <= 3)
    /\ [][/\ proc'.method = "track_agent_speech" =>
                LastOf(state'.recent_agent_speech,
                       Append(state.recent_agent_speech, proc'.arg),
                       IF Len(state.recent_agent_speech) >= 3
                       THEN 3 ELSE Len(state.recent_agent_speech) + 1)
          /\ proc'.method = "clear_agent_speech_history" =>
                state'.recent_agent_speech = <<>>
          /\ proc'.method = "is_echo" =>
                state'.recent_agent_speech = state.recent_agent_speech]_vars

\* a fourth sentence was recorded and the oldest one, which differs from the
\* one that is now the oldest, was evicted
C22_Witness ==
    /\ proc.method = "track_agent_speech" /\ proc.ret # <<>>
    /\ Len(state.recent_agent_speech) = 3
    /\ proc.ret[1] # state.recent_agent_speech[1]
    /\ state.recent_agent_speech[3] = proc.arg

\* the step delivers a transcript that is no echo: only such a step sends
\* partial_transcript or user_transcript
TranscriptArrives ==
    \E i \in DOMAIN obs' : obs'[i].type \in {"partial_transcript", "user_transcript"}

\* C23: when a transcript that is no echo arrives while the agent is speaking
\* or audio is playing and the session is not interrupted, every processing
\* cycle in flight is cancelled and clear_audio is sent
C23_BargeInCancelsEveryCycle ==
    [][(/\ TranscriptArrives
        /\ state.is_speaking \/ state.is_audio_playing
        /\ ~state.is_interrupted)
       => /\ \A c \in Cycles :
                cyc[c].pc \in ActivePcs \cup {"start"} => cyc'[c].cancelReq
          /\ \E i \in DOMAIN obs' : obs'[i].type = "clear_audio"]_vars

\* C24: from the step in which a processing cycle sets is_processing until
\* that cycle ends, is_processing stays true: no reset of the flags by an
\* earlier cycle falls into a cycle that has started
C24_ProcessingWhileCycleRuns ==
    \A c \in Cycles : cyc[c].pc \in ActivePcs => state.is_processing

\* C25: a partial or final transcript that is_echo takes for an echo is
\* dropped: the step changes no flag, pending text, history, task or window,
\* starts and cancels no cycle and sends nothing
C25_EchoIsDropped ==
    [][\A text \in FinalTexts \cup PartialTexts :
          (/\ is_echo(state, text)
           /\ OnFinalTranscript(text) \/ OnPartialTranscript(text))
          => /\ state' = state
             /\ processing_task' = processing_task
             /\ handlers' = handlers
             /\ obs' = <<>>
             /\ \A c \in Cycles : /\ cyc'[c].pc = cyc[c].pc
                                  /\ cyc'[c].cancelReq = cyc[c].cancelReq]_vars

\* a final transcript has arrived while the window held a sentence and was
\* not accepted
C25_Witness ==
    /\ running
    /\ finalsLeft < MaxFinals /\ (finalsLeft + 1) \notin g.accepted
    /\ state.recent_agent_speech # <<>>
    /\ obs = <<>>

\* the execution in slot c has recorded a sentence in the echo window: one of
\* the texts passed to _process_and_speak was not blank without its markers
HasRecorded(c) ==
    \E i \in 1..Len(cyc[c].passed) : strip_task_markers(cyc[c].passed[i]) # <<>>

\* the step in which the execution in slot c records a sentence and goes on
\* to its synthesis
Records(c) ==
    cyc'[c].pc = "tts" /\ cyc[c].pc # "tts" /\ cyc'[c].seq = cyc[c].seq

\* C26: when a processing cycle records its first spoken sentence, the echo
\* window holds no sentence recorded by an earlier cycle.  A cycle that has
\* ended has cleared the window after its last sentence, so a sentence of
\* another cycle is one of a cycle still running; when none of the cycles
\* started later has recorded one, the window holds the new sentence only
C26_NoEchoOfEarlierCycle ==
    [][\A c \in Cycles :
          (/\ Records(c) /\ ~HasRecorded(c)
           /\ \A d \in Cycles \ {c} : HasRecorded(d) => cyc[d].seq < cyc[c].seq)
          => Len(state'.recent_agent_speech) = 1]_vars

\* C27: whenever an audio chunk of a sentence is forwarded to the client, the
\* text of that sentence is in the echo window
C27_SpokenTextIsInWindow ==
    \A i \in DOMAIN obs :
        obs[i].type = "audio" =>
            \E n \in DOMAIN state.recent_agent_speech :
                state.recent_agent_speech[n] = obs[i].data

\* C28: an audio chunk is forwarded to the client only while is_speaking is
\* true
C28_AudioOnlyWhileSpeaking ==
    (\E i \in DOMAIN obs : obs[i].type = "audio") => state.is_speaking

\* C29: a cycle that finds is_interrupted true when it is resumed in its
\* token loop, by a token or by the end of a sentence's audio, leaves the
\* loop for good: in that step it goes on to the end of the cycle, takes no
\* token, adds nothing to response_text and passes nothing to
\* _process_and_speak, the trailing text of the buffer included
C29_InterruptEndsTheLoop ==
    [][\A c \in Cycles :
          (/\ state.is_interrupted
           /\ cyc[c].pc \in {"llm", "tts"}
           /\ cyc'[c].pc # cyc[c].pc)
          => /\ cyc'[c].pc \in {"audio_done", "error_sent", "done"}
             /\ cyc'[c].pc # "done" =>
                   /\ cyc'[c].ntok = cyc[c].ntok
                   /\ cyc'[c].response_text = cyc[c].response_text
                   /\ cyc'[c].passed = cyc[c].passed]_vars

\* a cycle that was interrupted while it spoke waits in the send of
\* audio_done with the trailing text still in its buffer
C29_Witness ==
    \E c \in Cycles :
        /\ cyc[c].pc = "audio_done" /\ cyc[c].intr /\ state.is_interrupted
        /\ ~cyc[c].tail /\ Strip(cyc[c].sentence_buffer) # <<>>

\* C30: the client's interrupt signal sets is_interrupted, clears
\* is_audio_playing and changes nothing else: no other flag, pending text,
\* history, task or window; it cancels and starts no cycle and sends nothing
C30_InterruptSignalOnlySetsFlags ==
    [][HandleUserSpeakingInterrupt =>
          /\ state' = [state EXCEPT !.is_interrupted = TRUE, !.is_audio_playing = FALSE]
          /\ processing_task' = processing_task
          /\ handlers' = handlers
          /\ obs' = <<>>
          /\ \A c \in Cycles : /\ cyc'[c].pc = cyc[c].pc
                               /\ cyc'[c].cancelReq = cyc[c].cancelReq]_vars

\* the signal has arrived while a cycle was speaking, and the cycle is not
\* cancelled: only a signal leaves is_interrupted true without a pending text
C30_Witness ==
    /\ state.is_interrupted /\ ~state.is_audio_playing
    /\ state.pending_interrupt_text = NoneT
    /\ eventsLeft < MaxEvents
    /\ obs = <<>>
    /\ \E c \in Cycles : cyc[c].pc = "tts" /\ ~cyc[c].cancelReq

\* C31: a partial transcript that is no echo and arrives while the session is
\* not interrupted, not speaking and not playing audio only sends
\* partial_transcript: no flag or pending text changes, no task is cancelled
\* or created
C31_QuietPartialOnlyEmits ==
    [][\A text \in PartialTexts :
          (/\ OnPartialTranscript(text)
           /\ ~is_echo(state, text)
           /\ ~state.is_interrupted /\ ~state.is_speaking /\ ~state.is_audio_playing)
          => /\ state' = state
             /\ processing_task' = processing_task
             /\ handlers' = handlers
             /\ obs' = <<Obs("partial_transcript", text, 0)>>
             /\ \A c \in Cycles : /\ cyc'[c].pc = cyc[c].pc
                                  /\ cyc'[c].cancelReq = cyc[c].cancelReq]_vars

\* the partial transcript has arrived while a reply was being generated and
\* nothing had been spoken yet
C31_Witness ==
    /\ obs # <<>> /\ obs[1].type = "partial_transcript"
    /\ state.is_processing /\ ~state.is_speaking /\ ~state.is_interrupted
    /\ ~state.is_audio_playing
    /\ state.pending_interrupt_text = NoneT
    /\ \E c \in Cycles : cyc[c].pc = "llm" /\ ~cyc[c].cancelReq

\* the positions of an entry in the log of an execution
At(log, e) == {i \in DOMAIN log : log[i] = e}

\* what task c has sent in the step just taken, as log entries
SentBy(out, c) ==
    LET own == SelectSeq(out, LAMBDA o : o.cyc = c /\ o.type # "log")
    IN [i \in DOMAIN own |-> LogEntry(own[i].type, own[i].data)]

\* the order of the observations of one execution
InOrder(log) ==
    /\ \A i \in At(log, "partial_response") : \E j \in At(log, "thinking") : j < i
    /\ Cardinality(At(log, "speaking")) <= 1
    /\ \A i \in At(log, "audio") : \E j \in At(log, "speaking") : j < i
    /\ \A i \in At(log, "agent_response") : \A j \in At(log, "audio") : j < i
    /\ \A i \in At(log, "audio_done") :
          \A j \in At(log, "audio") \cup At(log, "agent_response") : j < i
    /\ \A i \in At(log, "listening") : i = Len(log)

\* an execution that was not interrupted returns without a failure and
\* without handing over to a nested execution
CompletesUninterrupted(c) ==
    /\ cyc[c].pc \in ActivePcs /\ cyc'[c].pc = "done"
    /\ ~cyc[c].cancelReq /\ ~cyc[c].intr
    /\ ~state.is_interrupted /\ ~state'.is_interrupted
    /\ At(g.log[c][Len(g.log[c])] \o SentBy(obs', c), "error") = {}

\* the last observations of a completed execution: agent_response when text
\* was generated, audio_done, status listening
EndsInOrder(log, responded) ==
    /\ InOrder(log)
    /\ Len(log) >= 2
    /\ log[Len(log)] = "listening"
    /\ log[Len(log) - 1] = "audio_done"
    /\ responded => At(log, "agent_response") # {}

UserMessages(h) == Cardinality({i \in DOMAIN h : h[i].role = "user"})

\* the step in which an execution in task c opens the generation stream
StartsGeneration(c) ==
    /\ cyc'[c].pc = "llm" /\ cyc'[c].ntok = 0
    /\ ~(cyc[c].pc = "llm" /\ cyc[c].seq = cyc'[c].seq)

\* the last message of history h is the user message of text, with a context
\* block appended exactly when withContext
IsUserMessage(h, text, withContext) ==
    /\ h # <<>>
    /\ h[Len(h)].role = "user"
    /\ IF withContext
       THEN /\ StartsWith(h[Len(h)].content, text \o ContextHeader)
            /\ Len(h[Len(h)].content) > Len(text \o ContextHeader)
       ELSE h[Len(h)].content = text

\* C33: in every execution the classification is awaited only when the
\* keyword filter passes, and once; the retrieval query is awaited only when
\* the classification answered a search directive; rag_results is sent only
\* when the query returned results, and exactly then the user message carries
\* a context block, otherwise it is the raw utterance; and exactly one user
\* message is appended, when generation starts
C33_RetrievalGate ==
    [][\A c \in Cycles :
          /\ cyc'[c].pc = "rag" /\ cyc[c].pc # "rag"
             => /\ cyc'[c].seq > cyc[c].seq
                /\ should_check_rag(cyc'[c].text)
          /\ cyc'[c].pc = "search" /\ cyc[c].pc # "search"
             => \E decision \in ClassifierOutputs :
                   /\ CycleRagAnswered(c, decision)
                   /\ StartsWith(decision, SearchPrefix)
          /\ At(SentBy(obs', c), "rag_results") # {}
             => \E results \in SearchResults \ {<<>>} : CycleSearchAnswered(c, results)
          /\ CycleSearchAnswered(c, <<>>)
             => /\ At(SentBy(obs', c), "rag_results") = {}
                /\ StartsGeneration(c)
          /\ StartsGeneration(c)
             => /\ UserMessages(state'.conversation_history)
                      = UserMessages(state.conversation_history) + 1
                /\ IsUserMessage(state'.conversation_history, cyc'[c].text,
                                 At(g'.log[c][Len(g'.log[c])], "rag_results") # {})
          /\ UserMessages(state'.conversation_history)
                > UserMessages(state.conversation_history)
             => \E d \in Cycles : StartsGeneration(d)]_vars

\* generation has started on a user message that carries the context block
\* of a retrieval, and on one that is the raw utterance after a retrieval
\* without results
C33_Witness ==
    \E c \in Cycles :
       /\ cyc[c].pc = "llm" /\ cyc[c].ntok = 0
       /\ At(g.log[c][Len(g.log[c])], "rag_results") # {}
       /\ IsUserMessage(state.conversation_history, cyc[c].text, TRUE)

\* C34: when the classification call fails (it answers "") or the retrieval
\* query raises, the execution sends no error, appends the raw utterance as
\* the user message, sends status thinking and opens the generation stream
C34_RetrievalFailsOpen ==
    [][\A c \in Cycles :
          CycleRagAnswered(c, <<>>) \/ CycleSearchError(c)
          => /\ StartsGeneration(c)
             /\ IsUserMessage(state'.conversation_history, cyc'[c].text, FALSE)
             /\ At(SentBy(obs', c), "error") = {}
             /\ At(SentBy(obs', c), "thinking") # {}]_vars

\* the retrieval query has raised and generation has started on the raw
\* utterance
C34_Witness ==
    \E c \in Cycles :
       /\ \E i \in DOMAIN obs : obs[i].type = "log" /\ obs[i].data = "RAG error"
       /\ cyc[c].pc = "llm" /\ cyc[c].ntok = 0
       /\ should_check_rag(cyc[c].text)
       /\ IsUserMessage(state.conversation_history, cyc[c].text, FALSE)

(***************************************************************************)
(* One turn of a session that receives one config message with the task    *)
(* list, before, during or after the turn.  The generated text is          *)
(* "Okay. [TASK_DONE:1]" and reaches the session in every split into       *)
(* tokens.                                                                 *)
(***************************************************************************)
InitConfigurable ==
    /\ state = SessionState
    /\ processing_task = 0
    /\ running = TRUE
    /\ cyc = [c \in Cycles |-> IdleCyc]
    /\ handlers = {}
    /\ obs = <<>>
    /\ finalsLeft = 1
    /\ eventsLeft = 1
    /\ stallsLeft = MaxStalls
    /\ g = GInit
    /\ proc = NoCall

MarkedSplits == UNION {SplitsOf(TokensA[1], n) : n \in 1..MaxTokens}

NextMarked ==
    \/ Configure
    \/ OnFinalTranscript(U_plan)
    \/ \E h \in handlers : FinalHandlerResumes(h)
    \/ \E c \in Cycles :
          \/ CycleStart(c)
          \/ CycleRagAnswered(c, <<"N","O","N","E">>)
          \/ \E s \in MarkedSplits : CycleToken(c, s) \/ CycleStreamEnd(c, s)
          \/ CycleChunk(c)
          \/ CycleSynthEnd(c)
          \/ \E pc \in SendPcs : CycleSendDone(c, pc)

SpecMarked == InitConfigurable /\ [][NextMarked]_vars

\* the task_update observations of the step that name the task id
UpdatesOf(id) == {i \in DOMAIN obs' : obs'[i].type = "task_update" /\ obs'[i].data = id}

\* the task ids of a list of extracted markers
IdsOf(task_ids) == {task_ids[k] : k \in DOMAIN task_ids}

\* an execution that was not interrupted saves its response
FinalizesUninterrupted(c) ==
    /\ At(SentBy(obs', c), "agent_response") # {}
    /\ ~cyc[c].intr /\ ~state.is_interrupted

\* C35: once an execution that was not interrupted has saved its response,
\* every task that a complete marker of the generated text names is
\* completed, wherever the tokens and the sentences end inside the marker; a
\* step of an execution sends exactly one task_update for a task it
\* completes and none for any other; and a completed task has received
\* exactly one task_update
C35_MarkersAcrossBoundaries ==
    /\ [][\A c \in Cycles :
             FinalizesUninterrupted(c)
             => /\ Len(state'.tasks) = Len(state.tasks)
                /\ \A i \in DOMAIN state.tasks :
                      state.tasks[i].id
                         \in IdsOf(extract_task_completions(cyc[c].response_text))
                      => state'.tasks[i].completed]_vars
    /\ [][eventsLeft' = eventsLeft
          => \A i \in DOMAIN state.tasks :
                Cardinality(UpdatesOf(state.tasks[i].id))
                   = IF Completes(i) THEN 1 ELSE 0]_vars
    /\ [](\A i \in DOMAIN state.tasks :
             state.tasks[i].completed
             => Cardinality({k \in DOMAIN g.updates : g.updates[k] = state.tasks[i].id}) = 1)

\* a sentence that ends inside the marker, after the colon, was passed to
\* _process_and_speak, and the task the marker names was completed when the
\* response was finalized
C35_Witness ==
    \E c \in Cycles :
       /\ cyc[c].pc = "audio_done"
       /\ \E k \in DOMAIN cyc[c].passed : EndsWith(cyc[c].passed[k], MarkerOpen)
       /\ state.tasks # <<>> /\ state.tasks[1].completed
       /\ g.updates = <<1>>
       /\ Sent("task_update") # {}

\* text shows a piece of a marker: the literal part of the marker, or at its
\* end a beginning of that literal part
ShowsMarkerPiece(text) ==
    \/ Contains(text, MarkerOpen)
    \/ \E k \in 1..Len(MarkerOpen) : EndsWith(text, SubSeq(MarkerOpen, 1, k))

\* C36: wherever the stream cuts the marker of the generated text, the text
\* of a partial_response observation shows no piece of the marker
C36_NoMarkerPieceShown ==
    \A i \in DOMAIN obs :
       obs[i].type = "partial_response" => ~ShowsMarkerPiece(obs[i].data)

\* no execution of the processing cycle is active, created or about to be
\* created
NoCycle ==
    /\ \A c \in Cycles : cyc[c].pc \notin ActivePcs \cup {"start"}
    /\ handlers = {}

\* a final transcript that is no echo in session state st starts a cycle:
\* it takes the branch of line 222 or the branch of line 254
StartsCycle(st) ==
    \A text \in FinalTexts :
       ~is_echo(st, text) => FinalBranch(st, text) \in {"interrupted", "normal"}

\* C37: in every state without an active cycle a final transcript that is no
\* echo starts a cycle, or, when the session is speaking or audio is playing,
\* the next one does; and a final transcript that takes a starting branch
\* creates the processing task or is about to
C37_NeverStuck ==
    /\ [](NoCycle =>
             \A text \in FinalTexts :
                ~is_echo(state, text)
                => \/ FinalBranch(state, text) \in {"interrupted", "normal"}
                   \/ /\ FinalBranch(state, text) = "barge_in"
                      /\ state.is_speaking \/ state.is_audio_playing
                      /\ StartsCycle(BargeInState(state, text)))
    /\ [][\A text \in FinalTexts :
             OnFinalTranscript(text)
             => /\ FinalBranch(state, text) \in {"interrupted", "normal"}
                   => \/ processing_task' # 0 /\ cyc'[processing_task'].pc = "start"
                      \/ \E h \in handlers' \ handlers : h.text = text
                /\ NoCycle /\ FinalBranch(state, text) = "barge_in"
                   => StartsCycle(state') /\ NoCycle']_vars

\* without any cycle before, audio was playing: the first final transcript
\* was a barge-in and the second one has created the processing task
C37_Witness ==
    /\ finalsLeft = MaxFinals - 2
    /\ g.nStarted = 0
    /\ g.barge = 0 /\ eventsLeft < MaxEvents
    /\ processing_task # 0 /\ cyc[processing_task].pc = "start"
    /\ \A c \in Cycles \ {processing_task} : cyc[c].pc = "idle"

\* C38: in every state is_speaking implies is_processing
C38_SpeakingImpliesProcessing == state.is_speaking => state.is_processing

\* the first user message is followed by an assistant message, and every
\* assistant message by a user message or by nothing
Alternates(h) ==
    /\ h # <<>> => h[1].role = "user"
    /\ \A i \in 1..(Len(h) - 1) :
          h[i].role = "assistant" => h[i + 1].role = "user"

\* C39: the history never starts with an assistant message and never holds
\* two assistant messages in a row
C39_NoTwoAssistantMessages == Alternates(state.conversation_history)

====
